---------------------------- MODULE Spec2Model ----------------------------
(***************************************************************************)
(* Model of the schema-aware JSON Pointer / JSON Patch validators          *)
(* (src/src/validators/json-pointer.validator.ts, which holds the pointer  *)
(* validator, the patch validator and the streaming agent one after the    *)
(* other).                                                                 *)
(*                                                                         *)
(* Representation of JavaScript values                                     *)
(*  - A string is a sequence of atoms.  Every atom stands for a fixed,     *)
(*    non-empty piece of text; "/", "#", "~", ":", "-", "+", "^", "$",     *)
(*    "(" and the digits are atoms of one character.  No other atom is a   *)
(*    concatenation of atoms, and none contains one of these characters,   *)
(*    but for "$defs", which occurs only as a whole segment of a           *)
(*    reference and in no pattern.  So two strings are equal iff their     *)
(*    sequences are, and split, startsWith, includes, replace and          *)
(*    parseInt act on atoms as they act on characters.                     *)
(*  - A schema object is a function from keyword names to values; its      *)
(*    DOMAIN is the set of keywords the object declares.  {} is <<>>.      *)
(*  - A map-valued keyword (properties, patternProperties, $defs,          *)
(*    definitions, dependentSchemas) is an ordered map: a sequence of      *)
(*    records [k |-> key, v |-> schema] with pairwise distinct keys, in    *)
(*    the object's own key order.                                          *)
(*  - type is [arr |-> is it an array, v |-> sequence of type names].      *)
(*  - additionalProperties, items, additionalItems are [b |-> boolean],    *)
(*    [s |-> schema] or (items only) [a |-> sequence of schemas].          *)
(*  - The text of the streaming agent is a sequence of atoms of its own:   *)
(*    "\n", " " and the pieces of a JSON text (see the agent below).       *)
(***************************************************************************)
EXTENDS Integers, Sequences, FiniteSets, TLC

VARIABLES
    schema,         \* the root schema handed to the public function
    pointer,        \* validateJSONPointer: its pointer argument
    tokens,         \* validateJSONPointer: the parsed tokens
    pos,            \* validateTokens: number of tokens already processed
    currentSchema,  \* validateTokens: currentSchema
    visited,        \* context.visited, the cycle-guard set of the call
    pc,             \* where the running public call stands
    result,         \* the value the public call returned (or "RangeError")
    patch,          \* validateJSONPatch: its patch argument
    opIndex,        \* validateJSONPatch: the loop variable i
    errors,         \* validateJSONPatch: the errors accumulated so far
    written,        \* the assignments to schema objects made by the call so far
    agent           \* jsonPatchStreamingAgent: its stream, buffer, loop and yields

vars == <<schema, pointer, tokens, pos, currentSchema, visited, pc, result,
          patch, opIndex, errors, written, agent>>

(***************************************************************************)
(* Bounds of the model.                                                    *)
(***************************************************************************)
\* Depth of nested resolveSchema/resolveRef calls at which the engine's call
\* stack is taken to be exhausted (the run then ends in a RangeError).
MaxStack == 12
\* Longest patch drawn in Init of the patch specification.
MaxBatch == 3
\* Largest number of tokens of a drawn pointer.
MaxTokens == 3
\* Largest number of lines of a model output drawn for the streaming agent.
MaxLines == 2

(***************************************************************************)
(* Strings.                                                                *)
(***************************************************************************)
Digits == <<"0", "1", "2", "3", "4", "5", "6", "7", "8", "9">>

IsDigit(c) == \E d \in 1..10 : Digits[d] = c

DigitVal(c) == (CHOOSE d \in 1..10 : Digits[d] = c) - 1

\* Number of UTF-16 units the atom stands for (String.prototype.length).
AtomLen(c) ==
    CASE c = "name" -> 4
      [] c = "$defs" -> 5
      [] c = "definitions" -> 11
      [] c = "properties" -> 10
      [] c = "constructor" -> 11
      [] c = "items" -> 5
      [] c = "prefixItems" -> 11
      [] c = "allOf" -> 5
      [] c = "required" -> 8
      [] OTHER -> 1

RECURSIVE StrLen(_)
StrLen(s) == IF s = <<>> THEN 0 ELSE AtomLen(Head(s)) + StrLen(Tail(s))

\* s.slice(from) with 0 <= from (0-based).
Slice(s, from) == SubSeq(s, from + 1, Len(s))

\* s.slice(0, to): a negative to counts from the end.
SliceTo(s, to) == SubSeq(s, 1, IF to < 0 THEN Len(s) + to ELSE to)

\* s.startsWith(p)
StartsWith(s, p) == Len(p) <= Len(s) /\ SubSeq(s, 1, Len(p)) = p

\* s.includes(p)
Includes(s, p) == \E i \in 1..(Len(s) - Len(p) + 1) : SubSeq(s, i, i + Len(p) - 1) = p

\* s.lastIndexOf(c) for a one-atom c: 0-based, -1 when absent.
LastIndexOf(s, c) ==
    IF \E i \in 1..Len(s) : s[i] = c
    THEN (CHOOSE i \in 1..Len(s) : s[i] = c /\ \A j \in (i + 1)..Len(s) : s[j] # c) - 1
    ELSE -1

\* s.split(sep) for a one-atom separator: always at least one piece.
RECURSIVE Split(_, _)
Split(s, sep) ==
    IF \E i \in 1..Len(s) : s[i] = sep
    THEN LET i == CHOOSE i \in 1..Len(s) : s[i] = sep /\ \A j \in 1..(i - 1) : s[j] # sep
         IN <<SubSeq(s, 1, i - 1)>> \o Split(SubSeq(s, i + 1, Len(s)), sep)
    ELSE <<s>>

\* s.replace(/pat/g, rep) for a literal two-atom pat: left to right, no rescan.
RECURSIVE ReplaceAll(_, _, _)
ReplaceAll(s, pat, rep) ==
    IF Len(s) < Len(pat) THEN s
    ELSE IF SubSeq(s, 1, Len(pat)) = pat
         THEN rep \o ReplaceAll(SubSeq(s, Len(pat) + 1, Len(s)), pat, rep)
         ELSE <<Head(s)>> \o ReplaceAll(Tail(s), pat, rep)

\* token.replace(/~1/g, "/").replace(/~0/g, "~")
Unescape(token) == ReplaceAll(ReplaceAll(token, <<"~", "1">>, <<"/">>), <<"~", "0">>, <<"~">>)

\* The value of the longest prefix of digits of s (0 when there is none).
RECURSIVE DigitsValue(_, _)
DigitsValue(s, acc) ==
    IF s = <<>> \/ ~IsDigit(Head(s)) THEN acc
    ELSE DigitsValue(Tail(s), 10 * acc + DigitVal(Head(s)))

\* parseInt(s, 10): an optional sign, then the longest run of digits; NaN when
\* no digit follows.  -0 is modelled as 0: it prints as "0" and is not < 0.
ParseInt(s) ==
    LET signed == s # <<>> /\ Head(s) \in {"-", "+"}
        body   == IF signed THEN Tail(s) ELSE s
        neg    == signed /\ Head(s) = "-"
    IN IF body = <<>> \/ ~IsDigit(Head(body))
       THEN [nan |-> TRUE, v |-> 0]
       ELSE [nan |-> FALSE, v |-> IF neg THEN 0 - DigitsValue(body, 0) ELSE DigitsValue(body, 0)]

\* Number.prototype.toString() of an integer.
RECURSIVE NatToString(_)
NatToString(n) ==
    IF n < 10 THEN <<Digits[n + 1]>> ELSE NatToString(n \div 10) \o <<Digits[(n % 10) + 1]>>

IntToString(n) == IF n < 0 THEN <<"-">> \o NatToString(0 - n) ELSE NatToString(n)

\* new RegExp(pattern): the patterns of the model are an optional "^", literal
\* atoms and an optional "$"; a pattern holding "(" is malformed and throws.
RegExpThrows(pattern) == \E i \in 1..Len(pattern) : pattern[i] = "("

\* new RegExp(pattern).test(token), for a pattern that does not throw.
RegExpTest(pattern, token) ==
    LET atStart == pattern # <<>> /\ Head(pattern) = "^"
        p1      == IF atStart THEN Tail(pattern) ELSE pattern
        atEnd   == p1 # <<>> /\ p1[Len(p1)] = "$"
        lit     == IF atEnd THEN SubSeq(p1, 1, Len(p1) - 1) ELSE p1
        n       == Len(lit)
    IN \E i \in 1..(Len(token) - n + 1) :
          /\ SubSeq(token, i, i + n - 1) = lit
          /\ atStart => i = 1
          /\ atEnd => i + n - 1 = Len(token)

(***************************************************************************)
(* Schema objects.                                                         *)
(***************************************************************************)
EmptySchema == <<>>

\* type: "name"
TypeOf(name) == [arr |-> FALSE, v |-> <<name>>]

\* type: [names]
TypeArray(names) == [arr |-> TRUE, v |-> names]

Has(s, k) == k \in DOMAIN s

\* { ...s1, ...s2 }
Spread(s1, s2) ==
    [k \in DOMAIN s1 \cup DOMAIN s2 |-> IF k \in DOMAIN s2 THEN s2[k] ELSE s1[k]]

\* { ...s, k: v }
Put(s, k, v) == [x \in DOMAIN s \cup {k} |-> IF x = k THEN v ELSE s[x]]

\* { ...s, k1: undefined, ... }: every read of these keywords is a truthiness
\* test and a resolved schema is never resolved again, so a keyword set to
\* undefined reads as one the object does not declare.
Drop(s, ks) == [x \in DOMAIN s \ ks |-> s[x]]

\* Keys every plain object inherits from Object.prototype ("key in obj").
ProtoKeys == {<<"constructor">>}

OMHas(m, key) == \E i \in 1..Len(m) : m[i].k = key

OMGet(m, key) == m[CHOOSE i \in 1..Len(m) : m[i].k = key].v

\* { ...m1, ...m2 } of two ordered maps.
OMSpread(m1, m2) ==
    LET New(e) == ~OMHas(m1, e.k)
    IN [i \in 1..Len(m1) |->
           IF OMHas(m2, m1[i].k) THEN [k |-> m1[i].k, v |-> OMGet(m2, m1[i].k)] ELSE m1[i]]
       \o SelectSeq(m2, New)

\* Truthiness of a string-valued keyword (schema.$ref, schema.$anchor, ...).
TruthyStr(s, k) == Has(s, k) /\ s[k] # <<>>

\* Truthiness of schema.items: every value but false.
TruthyItems(s) == Has(s, "items") /\ ~(Has(s["items"], "b") /\ ~s["items"].b)

\* Array.isArray(schema.type) ? schema.type : [schema.type]
SchemaTypes(s) == IF Has(s, "type") THEN s["type"].v ELSE <<>>

SeqIncludes(seq, x) == \E i \in 1..Len(seq) : seq[i] = x

\* What a resolution or traversal step hands back: the schema (null when the
\* step returns null), the cycle-guard set it leaves behind, and whether the
\* call stack overflowed on the way (RangeError).
Ret(s, vis) == [schema |-> s, visited |-> vis, null |-> FALSE, threw |-> FALSE]

RetNull(vis) == [schema |-> EmptySchema, visited |-> vis, null |-> TRUE, threw |-> FALSE]

Thrown(vis) == [schema |-> EmptySchema, visited |-> vis, null |-> TRUE, threw |-> TRUE]

(***************************************************************************)
(* mergeSchemas of the pointer validator.                                  *)
(***************************************************************************)
\* [...new Set(seq)]: first occurrences, in order.
RECURSIVE Dedupe(_)
Dedupe(seq) ==
    IF seq = <<>> THEN <<>>
    ELSE LET init == Dedupe(SubSeq(seq, 1, Len(seq) - 1))
             last == seq[Len(seq)]
         IN IF SeqIncludes(init, last) THEN init ELSE Append(init, last)

OrEmpty(s, k) == IF Has(s, k) THEN s[k] ELSE <<>>

MergeProperties(merged, s1, s2) ==
    IF Has(s1, "properties") \/ Has(s2, "properties")
    THEN Put(merged, "properties", OMSpread(OrEmpty(s1, "properties"), OrEmpty(s2, "properties")))
    ELSE merged

MergePatternProperties(merged, s1, s2) ==
    IF Has(s1, "patternProperties") \/ Has(s2, "patternProperties")
    THEN Put(merged, "patternProperties",
             OMSpread(OrEmpty(s1, "patternProperties"), OrEmpty(s2, "patternProperties")))
    ELSE merged

MergeRequired(merged, s1, s2) ==
    IF Has(s1, "required") \/ Has(s2, "required")
    THEN Put(merged, "required", Dedupe(OrEmpty(s1, "required") \o OrEmpty(s2, "required")))
    ELSE merged

MergeType(merged, s1, s2) ==
    IF Has(s1, "type") /\ Has(s2, "type")
    THEN LET t2 == s2["type"].v
             In2(t) == SeqIncludes(t2, t)
             commonTypes == SelectSeq(s1["type"].v, In2)
         IN IF Len(commonTypes) > 0
            THEN Put(merged, "type", [arr |-> Len(commonTypes) # 1, v |-> commonTypes])
            ELSE merged
    ELSE merged

Max(a, b) == IF a >= b THEN a ELSE b

Min(a, b) == IF a <= b THEN a ELSE b

OrZero(s, k) == IF Has(s, k) THEN s[k] ELSE 0

MergeMinMaxProperties(merged, s1, s2) ==
    LET m1 == IF Has(s1, "minProperties") \/ Has(s2, "minProperties")
              THEN Put(merged, "minProperties",
                       Max(OrZero(s1, "minProperties"), OrZero(s2, "minProperties")))
              ELSE merged
    IN IF Has(s1, "maxProperties") /\ Has(s2, "maxProperties")
       THEN Put(m1, "maxProperties", Min(s1["maxProperties"], s2["maxProperties"]))
       ELSE IF Has(s1, "maxProperties") THEN Put(m1, "maxProperties", s1["maxProperties"])
       ELSE IF Has(s2, "maxProperties") THEN Put(m1, "maxProperties", s2["maxProperties"])
       ELSE m1

mergeSchemas(s1, s2) ==
    MergeMinMaxProperties(
        MergeType(
            MergeRequired(
                MergePatternProperties(
                    MergeProperties(Spread(s1, s2), s1, s2), s1, s2), s1, s2), s1, s2), s1, s2)

(***************************************************************************)
(* The resolution context and reference resolution of the pointer          *)
(* validator.  A context is [root, anchors]; context.visited is threaded   *)
(* through the operators as vis, and handed back in the result.            *)
(* context.definitions is built but never read.                            *)
(***************************************************************************)
RECURSIVE collectAnchors(_)
RECURSIVE CollectAnchorsIn(_)

\* The anchors.set(name, node) calls of collectAnchors(schema), in order.
collectAnchors(s) ==
    (IF TruthyStr(s, "$anchor") THEN <<[k |-> s["$anchor"], v |-> s]>> ELSE <<>>)
    \o (IF TruthyStr(s, "$dynamicAnchor") THEN <<[k |-> s["$dynamicAnchor"], v |-> s]>> ELSE <<>>)
    \o CollectAnchorsIn(OrEmpty(s, "properties"))
    \o CollectAnchorsIn(OrEmpty(s, "$defs"))

CollectAnchorsIn(m) ==
    IF m = <<>> THEN <<>> ELSE collectAnchors(Head(m).v) \o CollectAnchorsIn(Tail(m))

\* anchors.has(name) / anchors.get(name): the last set wins.
AnchorsHas(anchors, name) == \E i \in 1..Len(anchors) : anchors[i].k = name

AnchorsGet(anchors, name) ==
    anchors[CHOOSE i \in 1..Len(anchors) :
                /\ anchors[i].k = name
                /\ \A j \in (i + 1)..Len(anchors) : anchors[j].k # name].v

NewContext(root) == [root |-> root, anchors |-> collectAnchors(root)]

\* A value met while walking "#/a/b/c" from the root: a schema object, an
\* ordered map of schemas, an array of schemas, some other object (an array of
\* strings), or a primitive / undefined.
JSSchema(s) == [kind |-> "schema", v |-> s]

JSMap(m) == [kind |-> "map", v |-> m]

JSList(l) == [kind |-> "list", v |-> l]

JSObject == [kind |-> "object", v |-> <<>>]

JSPrimitive == [kind |-> "primitive", v |-> <<>>]

MapKeywords == {"properties", "patternProperties", "$defs", "definitions", "dependentSchemas"}

ListKeywords == {"allOf", "anyOf", "oneOf", "prefixItems"}

SchemaKeywords == {"propertyNames", "not", "if", "then", "else"}

ArrayKeywords == {"enum", "required"}

\* value[key] for a schema object and a keyword it declares.
KeywordValue(s, kw) ==
    IF kw \in MapKeywords THEN JSMap(s[kw])
    ELSE IF kw \in ListKeywords THEN JSList(s[kw])
    ELSE IF kw \in SchemaKeywords THEN JSSchema(s[kw])
    ELSE IF kw \in ArrayKeywords THEN JSObject
    ELSE IF kw = "type" THEN (IF s[kw].arr THEN JSObject ELSE JSPrimitive)
    ELSE IF kw \in {"additionalProperties", "items", "additionalItems"}
         THEN (IF Has(s[kw], "s") THEN JSSchema(s[kw].s)
               ELSE IF Has(s[kw], "a") THEN JSList(s[kw].a)
               ELSE JSPrimitive)
    ELSE JSPrimitive

\* resolved?.[key]
Member(cur, key) ==
    IF cur.kind = "schema"
    THEN IF Len(key) = 1 /\ Has(cur.v, key[1]) THEN KeywordValue(cur.v, key[1]) ELSE JSPrimitive
    ELSE IF cur.kind = "map"
    THEN IF OMHas(cur.v, key) THEN JSSchema(OMGet(cur.v, key)) ELSE JSPrimitive
    ELSE IF cur.kind = "list"
    THEN LET index == ParseInt(key)
         IN IF ~index.nan /\ index.v >= 0 /\ IntToString(index.v) = key /\ index.v < Len(cur.v)
            THEN JSSchema(cur.v[index.v + 1])
            ELSE JSPrimitive
    ELSE JSPrimitive

\* The loop of resolveRef over the segments of a "#/..." reference.  A
\* primitive never has an object below it, so the walk may stop at the first.
RECURSIVE WalkRef(_, _)
WalkRef(cur, path) ==
    IF path = <<>> \/ cur.kind = "primitive" THEN cur
    ELSE WalkRef(Member(cur, Unescape(Head(path))), Tail(path))

RECURSIVE resolveSchema(_, _, _, _)
RECURSIVE resolveRef(_, _, _, _)
RECURSIVE ResolveAndMerge(_, _, _, _, _)

\* The callback of reduce, applied to the resolved branch r, and the rest of
\* the reduction.
MergeResolved(r, rest, acc, ctx, depth) ==
    IF r.threw THEN r
    ELSE ResolveAndMerge(rest, mergeSchemas(acc, r.schema), ctx, r.visited, depth)

\* schemas.reduce((acc, s) => mergeSchemas(acc, resolveSchema(s, context)), acc)
ResolveAndMerge(schemas, acc, ctx, vis, depth) ==
    IF schemas = <<>> THEN Ret(acc, vis)
    ELSE MergeResolved(resolveSchema(Head(schemas), ctx, vis, depth),
                       Tail(schemas), acc, ctx, depth)

\* { ...schema, ...merged, k1: undefined, ... } for the outcome m of a merge.
SpreadMerged(s, m, ks) ==
    IF m.threw THEN m ELSE Ret(Drop(Spread(s, m.schema), ks), m.visited)

\* The schemas resolveSchema collects for a conditional: then, else.
Branches(s) ==
    (IF Has(s, "then") THEN <<s["then"]>> ELSE <<>>)
    \o (IF Has(s, "else") THEN <<s["else"]>> ELSE <<>>)

\* resolveRef after the guard, with the reference added to the guard set
\* and the target its "#/..." walk finds.
ResolveTarget(ref, ctx, added, target, depth) ==
    IF /\ StartsWith(ref, <<"#">>)
       /\ ~Includes(ref, <<"/">>)
       /\ AnchorsHas(ctx.anchors, Slice(ref, 1))
    THEN resolveSchema(AnchorsGet(ctx.anchors, Slice(ref, 1)), ctx, added, depth + 1)
    ELSE IF StartsWith(ref, <<"#", "/">>) /\ target.kind = "schema"
    THEN resolveSchema(target.v, ctx, added, depth + 1)
    \* an object that declares no schema keyword comes back as it is
    ELSE IF StartsWith(ref, <<"#", "/">>) /\ target.kind # "primitive"
    THEN Ret(EmptySchema, added)
    ELSE IF ~StartsWith(ref, <<"#">>) /\ ~Includes(ref, <<":", "/", "/">>)
    THEN Ret(EmptySchema, added)
    ELSE Ret(EmptySchema, added \ {ref})

\* The guard of resolveRef: a reference already being resolved yields {}.
\* A resolution without the guard.
Unguarded(ref, vis) == FALSE

RefGuard(ref, vis) == ref \in vis

resolveRef(ref, ctx, vis, depth) ==
    IF depth > MaxStack THEN Thrown(vis)
    ELSE IF RefGuard(ref, vis) THEN Ret(EmptySchema, vis)
    ELSE ResolveTarget(ref, ctx, vis \cup {ref},
                       WalkRef(JSSchema(ctx.root), Split(Slice(ref, 2), "/")), depth)

resolveSchema(s, ctx, vis, depth) ==
    IF depth > MaxStack THEN Thrown(vis)
    ELSE IF TruthyStr(s, "$ref") THEN resolveRef(s["$ref"], ctx, vis, depth + 1)
    ELSE IF TruthyStr(s, "$dynamicRef") THEN resolveRef(s["$dynamicRef"], ctx, vis, depth + 1)
    ELSE IF Has(s, "allOf")
    THEN SpreadMerged(s, ResolveAndMerge(s["allOf"], EmptySchema, ctx, vis, depth + 1),
                      {"allOf"})
    ELSE IF Has(s, "anyOf") /\ Len(s["anyOf"]) > 0
    THEN resolveSchema(s["anyOf"][1], ctx, vis, depth + 1)
    ELSE IF Has(s, "oneOf") /\ Len(s["oneOf"]) > 0
    THEN resolveSchema(s["oneOf"][1], ctx, vis, depth + 1)
    ELSE IF Has(s, "not") THEN Ret(Drop(s, {"not"}), vis)
    ELSE IF Has(s, "if") /\ (Has(s, "then") \/ Has(s, "else"))
    THEN SpreadMerged(s, ResolveAndMerge(Branches(s), EmptySchema, ctx, vis, depth + 1),
                      {"if", "then", "else"})
    ELSE Ret(s, vis)

(***************************************************************************)
(* The assignments of the pointer validator to schema objects.  The only   *)
(* ones are merged.k = ... in mergeSchemas; a write is recorded with the   *)
(* object it goes to: a node of the input schema, or an object the call    *)
(* made itself.                                                            *)
(***************************************************************************)
\* A merge whose assignments go to its second argument.
MergeIntoSecond(s1, s2) == "s2"

\* The object the assignments of mergeSchemas go to: merged is an object
\* literal, a new object.
MergeTarget(s1, s2) == "new"

\* The keywords mergeSchemas assigns on that object.
MergeAssigns(s1, s2) ==
    {k \in {"properties", "patternProperties", "required", "minProperties", "maxProperties"} :
        Has(s1, k) \/ Has(s2, k)}
    \cup (IF Has(s1, "type") /\ Has(s2, "type")
             /\ \E i \in 1..Len(s1["type"].v) : SeqIncludes(s2["type"].v, s1["type"].v[i])
          THEN {"type"} ELSE {})

Write(input, node, k) == [input |-> input, node |-> node, key |-> k]

\* The writes of one mergeSchemas(s1, s2), s2 being a node of the input
\* schema or not (s1 is the accumulator of the reduction, never a node).
MergeWrites(s1, s2, s2IsInput) ==
    {Write(MergeTarget(s1, s2) = "s2" /\ s2IsInput,
           IF MergeTarget(s1, s2) = "s2" /\ s2IsInput THEN s2 ELSE EmptySchema, k) :
        k \in MergeAssigns(s1, s2)}

RECURSIVE ResolvedIsInput(_, _, _, _)

\* Whether resolveRef returns a node of the input schema.
TargetIsInput(ref, ctx, added, target, depth) ==
    IF /\ StartsWith(ref, <<"#">>)
       /\ ~Includes(ref, <<"/">>)
       /\ AnchorsHas(ctx.anchors, Slice(ref, 1))
    THEN ResolvedIsInput(AnchorsGet(ctx.anchors, Slice(ref, 1)), ctx, added, depth + 1)
    ELSE IF StartsWith(ref, <<"#", "/">>) /\ target.kind = "schema"
    THEN ResolvedIsInput(target.v, ctx, added, depth + 1)
    ELSE StartsWith(ref, <<"#", "/">>) /\ target.kind # "primitive"

RefIsInput(ref, ctx, vis, depth) ==
    IF depth > MaxStack \/ RefGuard(ref, vis) THEN FALSE
    ELSE TargetIsInput(ref, ctx, vis \cup {ref},
                       WalkRef(JSSchema(ctx.root), Split(Slice(ref, 2), "/")), depth)

\* Whether resolveSchema, called on a node of the input schema, returns a
\* node of the input schema (and not an object literal of its own).
ResolvedIsInput(s, ctx, vis, depth) ==
    IF depth > MaxStack THEN FALSE
    ELSE IF TruthyStr(s, "$ref") THEN RefIsInput(s["$ref"], ctx, vis, depth + 1)
    ELSE IF TruthyStr(s, "$dynamicRef") THEN RefIsInput(s["$dynamicRef"], ctx, vis, depth + 1)
    ELSE IF Has(s, "allOf") THEN FALSE
    ELSE IF Has(s, "anyOf") /\ Len(s["anyOf"]) > 0
    THEN ResolvedIsInput(s["anyOf"][1], ctx, vis, depth + 1)
    ELSE IF Has(s, "oneOf") /\ Len(s["oneOf"]) > 0
    THEN ResolvedIsInput(s["oneOf"][1], ctx, vis, depth + 1)
    ELSE IF Has(s, "not") THEN FALSE
    ELSE IF Has(s, "if") /\ (Has(s, "then") \/ Has(s, "else")) THEN FALSE
    ELSE TRUE

RECURSIVE ResolveWrites(_, _, _, _)
RECURSIVE ReduceWrites(_, _, _, _, _)

\* The writes of the callback of reduce on the resolved branch r, and of the
\* rest of the reduction.
CallbackWrites(r, branch, rest, acc, ctx, vis, depth) ==
    IF r.threw THEN {}
    ELSE MergeWrites(acc, r.schema, ResolvedIsInput(branch, ctx, vis, depth))
         \cup ReduceWrites(rest, mergeSchemas(acc, r.schema), ctx, r.visited, depth)

\* The writes of schemas.reduce((acc, s) => mergeSchemas(acc, resolveSchema(s)), acc).
ReduceWrites(schemas, acc, ctx, vis, depth) ==
    IF schemas = <<>> THEN {}
    ELSE ResolveWrites(Head(schemas), ctx, vis, depth)
         \cup CallbackWrites(resolveSchema(Head(schemas), ctx, vis, depth),
                             Head(schemas), Tail(schemas), acc, ctx, vis, depth)

TargetWrites(ref, ctx, added, target, depth) ==
    IF /\ StartsWith(ref, <<"#">>)
       /\ ~Includes(ref, <<"/">>)
       /\ AnchorsHas(ctx.anchors, Slice(ref, 1))
    THEN ResolveWrites(AnchorsGet(ctx.anchors, Slice(ref, 1)), ctx, added, depth + 1)
    ELSE IF StartsWith(ref, <<"#", "/">>) /\ target.kind = "schema"
    THEN ResolveWrites(target.v, ctx, added, depth + 1)
    ELSE {}

RefWrites(ref, ctx, vis, depth) ==
    IF depth > MaxStack \/ RefGuard(ref, vis) THEN {}
    ELSE TargetWrites(ref, ctx, vis \cup {ref},
                      WalkRef(JSSchema(ctx.root), Split(Slice(ref, 2), "/")), depth)

\* The writes of resolveSchema(s, context).
ResolveWrites(s, ctx, vis, depth) ==
    IF depth > MaxStack THEN {}
    ELSE IF TruthyStr(s, "$ref") THEN RefWrites(s["$ref"], ctx, vis, depth + 1)
    ELSE IF TruthyStr(s, "$dynamicRef") THEN RefWrites(s["$dynamicRef"], ctx, vis, depth + 1)
    ELSE IF Has(s, "allOf") THEN ReduceWrites(s["allOf"], EmptySchema, ctx, vis, depth + 1)
    ELSE IF Has(s, "anyOf") /\ Len(s["anyOf"]) > 0
    THEN ResolveWrites(s["anyOf"][1], ctx, vis, depth + 1)
    ELSE IF Has(s, "oneOf") /\ Len(s["oneOf"]) > 0
    THEN ResolveWrites(s["oneOf"][1], ctx, vis, depth + 1)
    ELSE IF Has(s, "not") THEN {}
    ELSE IF Has(s, "if") /\ (Has(s, "then") \/ Has(s, "else"))
    THEN ReduceWrites(Branches(s), EmptySchema, ctx, vis, depth + 1)
    ELSE {}

(***************************************************************************)
(* Traversal of one token (pointer validator).                             *)
(***************************************************************************)
\* Index of the first patternProperties entry whose pattern matches the token
\* (a pattern that throws is skipped), 0 when there is none.
FirstPatternMatch(pp, token) ==
    LET Matches(i) == ~RegExpThrows(pp[i].k) /\ RegExpTest(pp[i].k, token)
    IN IF \E i \in 1..Len(pp) : Matches(i)
       THEN CHOOSE i \in 1..Len(pp) : Matches(i) /\ \A j \in 1..(i - 1) : ~Matches(j)
       ELSE 0

\* The propertyNames checks of tryObjectTraversal on the resolved
\* propertyNames schema: TRUE when the token is rejected.
PropertyNameRejected(resolved, token) ==
    \/ Has(resolved, "const") /\ resolved["const"] # token
    \/ Has(resolved, "enum") /\ ~SeqIncludes(resolved["enum"], token)
    \/ /\ TruthyStr(resolved, "pattern")
       /\ ~RegExpThrows(resolved["pattern"])
       /\ ~RegExpTest(resolved["pattern"], token)
    \/ Has(resolved, "minLength") /\ StrLen(token) < resolved["minLength"]
    \/ Has(resolved, "maxLength") /\ StrLen(token) > resolved["maxLength"]

\* The end of an object traversal that does not look at additionalProperties:
\* false.
AdditionalPropertyOpen(token, s, vis) ==
    IF Has(s, "additionalProperties") /\ Has(s["additionalProperties"], "s")
    THEN Ret(s["additionalProperties"].s, vis)
    ELSE IF Has(s, "dependentSchemas") /\ OMHas(s["dependentSchemas"], token)
    THEN Ret(OMGet(s["dependentSchemas"], token), vis)
    ELSE Ret(EmptySchema, vis)

\* tryObjectTraversal from its additionalProperties check to its end.
AdditionalProperty(token, s, vis) ==
    IF Has(s, "additionalProperties") /\ Has(s["additionalProperties"], "b")
       /\ ~s["additionalProperties"].b
    THEN RetNull(vis)
    ELSE IF Has(s, "additionalProperties") /\ Has(s["additionalProperties"], "s")
    THEN Ret(s["additionalProperties"].s, vis)
    ELSE IF Has(s, "dependentSchemas") /\ OMHas(s["dependentSchemas"], token)
    THEN Ret(OMGet(s["dependentSchemas"], token), vis)
    ELSE Ret(EmptySchema, vis)

\* tryObjectTraversal from the propertyNames checks on, r being the resolved
\* propertyNames schema.
CheckPropertyName(r, token, s) ==
    IF r.threw THEN r
    ELSE IF PropertyNameRejected(r.schema, token) THEN RetNull(r.visited)
    ELSE AdditionalProperty(token, s, r.visited)

tryObjectTraversal(token, s, ctx, vis) ==
    IF Has(s, "properties") /\ OMHas(s["properties"], token)
    THEN Ret(OMGet(s["properties"], token), vis)
    \* "token in properties" also holds for an inherited key; the value found
    \* there declares no schema keyword
    ELSE IF Has(s, "properties") /\ token \in ProtoKeys
    THEN Ret(EmptySchema, vis)
    ELSE IF Has(s, "patternProperties") /\ FirstPatternMatch(s["patternProperties"], token) # 0
    THEN Ret(s["patternProperties"][FirstPatternMatch(s["patternProperties"], token)].v, vis)
    ELSE IF Has(s, "propertyNames")
    THEN CheckPropertyName(resolveSchema(s["propertyNames"], ctx, vis, 1), token, s)
    ELSE AdditionalProperty(token, s, vis)

\* Items checks that do not look at items: false.
ItemsSchemaOpen(s, vis) ==
    IF Has(s, "items") /\ Has(s["items"], "s") THEN Ret(s["items"].s, vis)
    ELSE Ret(EmptySchema, vis)

\* The items checks shared by the prefixItems overflow and the single-schema
\* case of tryArrayTraversal.
ItemsSchema(s, vis) ==
    IF Has(s, "items") /\ Has(s["items"], "b") /\ ~s["items"].b THEN RetNull(vis)
    ELSE IF Has(s, "items") /\ Has(s["items"], "s") THEN Ret(s["items"].s, vis)
    ELSE Ret(EmptySchema, vis)

tryArrayTraversal(token, s, vis) ==
    LET index == ParseInt(token)
    IN IF index.nan \/ index.v < 0 \/ token # IntToString(index.v) THEN RetNull(vis)
       ELSE IF Has(s, "maxItems") /\ index.v >= s["maxItems"] THEN RetNull(vis)
       ELSE IF Has(s, "prefixItems")
       THEN IF index.v < Len(s["prefixItems"])
            THEN Ret(s["prefixItems"][index.v + 1], vis)
            ELSE ItemsSchema(s, vis)
       ELSE IF Has(s, "items") /\ Has(s["items"], "a")
       THEN IF index.v < Len(s["items"].a) THEN Ret(s["items"].a[index.v + 1], vis)
            ELSE IF Has(s, "additionalItems") /\ Has(s["additionalItems"], "b")
                    /\ ~s["additionalItems"].b
            THEN RetNull(vis)
            ELSE IF Has(s, "additionalItems") /\ Has(s["additionalItems"], "s")
            THEN Ret(s["additionalItems"].s, vis)
            ELSE Ret(EmptySchema, vis)
       ELSE ItemsSchema(s, vis)

\* A dispatch that tries the object traversal only on the shape of the
\* schema, not on its type.
ObjectDispatchByShape(s) ==
    \/ Has(s, "properties")
    \/ Has(s, "patternProperties")
    \/ ~Has(s, "type")

\* Whether getNextSchema tries the object traversal.
ObjectDispatch(s) ==
    \/ SeqIncludes(SchemaTypes(s), "object")
    \/ Has(s, "properties")
    \/ Has(s, "patternProperties")
    \/ ~Has(s, "type")

\* Whether getNextSchema tries the array traversal.
ArrayDispatch(s) ==
    \/ SeqIncludes(SchemaTypes(s), "array")
    \/ TruthyItems(s)
    \/ Has(s, "prefixItems")

\* getNextSchema after its object traversal gave o (null when not tried).
TryArray(o, token, s) ==
    IF o.threw \/ ~o.null THEN o
    ELSE IF ArrayDispatch(s) THEN tryArrayTraversal(token, s, o.visited)
    ELSE RetNull(o.visited)

\* getNextSchema up to its loop over several types.
GetNextByKind(token, s, ctx, vis) ==
    TryArray(IF ObjectDispatch(s) THEN tryObjectTraversal(token, s, ctx, vis) ELSE RetNull(vis),
             token, s)

RECURSIVE GetNextByType(_, _, _, _, _)

\* The loop over the types, after one type gave r.
TryNextType(r, types, token, s, ctx) ==
    IF r.threw \/ ~r.null THEN r ELSE GetNextByType(types, token, s, ctx, r.visited)

\* for (const type of schema.type) getNextSchema(token, {...schema, type}, context)
GetNextByType(types, token, s, ctx, vis) ==
    IF types = <<>> THEN RetNull(vis)
    ELSE TryNextType(GetNextByKind(token, Put(s, "type", TypeOf(Head(types))), ctx, vis),
                     Tail(types), token, s, ctx)

\* getNextSchema after the object and array traversals gave r.
TryTypes(r, token, s, ctx) ==
    IF r.threw \/ ~r.null THEN r
    ELSE IF Has(s, "type") /\ s["type"].arr /\ Len(s["type"].v) > 1
    THEN GetNextByType(s["type"].v, token, s, ctx, r.visited)
    ELSE r

getNextSchema(token, s, ctx, vis) == TryTypes(GetNextByKind(token, s, ctx, vis), token, s, ctx)

(***************************************************************************)
(* validateTokens and validateJSONPointer.                                 *)
(***************************************************************************)
\* One iteration of the loop of validateTokens on currentSchema = s: null
\* when the loop returns false, threw on a RangeError, else the next
\* currentSchema.
\* The loop body after resolveSchema gave r.
TraverseResolved(r, token, ctx) ==
    IF r.threw THEN r
    ELSE IF Has(r.schema, "const") \/ Has(r.schema, "enum") THEN RetNull(r.visited)
    ELSE getNextSchema(token, r.schema, ctx, r.visited)

ValidateToken(token, s, ctx, vis) == TraverseResolved(resolveSchema(s, ctx, vis, 1), token, ctx)

RECURSIVE validateTokens(_, _, _, _)

\* The loop of validateTokens after one iteration gave r.
ValidateRest(r, toks, ctx) ==
    IF r.threw \/ r.null THEN r ELSE validateTokens(toks, r.schema, ctx, r.visited)

validateTokens(toks, s, ctx, vis) ==
    IF toks = <<>> THEN Ret(s, vis)
    ELSE ValidateRest(ValidateToken(Head(toks), s, ctx, vis), Tail(toks), ctx)

\* pointer.slice(1).split("/").map(unescape)
RECURSIVE UnescapeAll(_)
UnescapeAll(segments) ==
    IF segments = <<>> THEN <<>> ELSE <<Unescape(Head(segments))>> \o UnescapeAll(Tail(segments))

ParseTokens(ptr) == UnescapeAll(Split(Slice(ptr, 1), "/"))

IsRoot(ptr) == ptr = <<>> \/ ptr = <<"/">>

\* What the caller of validateTokens sees.
Outcome(r) == IF r.threw THEN "RangeError" ELSE IF r.null THEN "false" ELSE "true"

\* The whole call: "true", "false", or "RangeError" when the stack overflowed.
PointerOutcome(ptr, root) ==
    IF IsRoot(ptr) THEN "true"
    ELSE IF ~StartsWith(ptr, <<"/">>) THEN "false"
    ELSE Outcome(validateTokens(ParseTokens(ptr), root, NewContext(root), {}))

\* Whether tryObjectTraversal(token, s) gets to resolve s.propertyNames.
PropertyNamesResolved(token, s) ==
    /\ ObjectDispatch(s)
    /\ Has(s, "propertyNames")
    /\ ~(Has(s, "properties") /\ (OMHas(s["properties"], token) \/ token \in ProtoKeys))
    /\ ~(Has(s, "patternProperties") /\ FirstPatternMatch(s["patternProperties"], token) # 0)

\* The writes of the loop body after resolveSchema gave r.
TraverseWrites(r, token, ctx) ==
    IF r.threw \/ Has(r.schema, "const") \/ Has(r.schema, "enum") THEN {}
    ELSE IF PropertyNamesResolved(token, r.schema)
    THEN ResolveWrites(r.schema["propertyNames"], ctx, r.visited, 1)
    ELSE {}

\* The writes of one iteration of the loop of validateTokens.
TokenWrites(token, s, ctx, vis) ==
    ResolveWrites(s, ctx, vis, 1) \cup TraverseWrites(resolveSchema(s, ctx, vis, 1), token, ctx)

RECURSIVE TokensWrites(_, _, _, _)

RestWrites(r, toks, ctx) ==
    IF r.threw \/ r.null THEN {} ELSE TokensWrites(toks, r.schema, ctx, r.visited)

\* The writes of validateTokens.
TokensWrites(toks, s, ctx, vis) ==
    IF toks = <<>> THEN {}
    ELSE TokenWrites(Head(toks), s, ctx, vis)
         \cup RestWrites(ValidateToken(Head(toks), s, ctx, vis), Tail(toks), ctx)

\* The writes of validateJSONPointer(ptr, root).
PointerWrites(ptr, root) ==
    IF IsRoot(ptr) \/ ~StartsWith(ptr, <<"/">>) THEN {}
    ELSE TokensWrites(ParseTokens(ptr), root, NewContext(root), {})

\* validateJSONPointer as the patch validator uses it (no schema of the model
\* overflows the stack, see C4_CyclesTerminate).
validateJSONPointer(ptr, root) == PointerOutcome(ptr, root) = "true"

(***************************************************************************)
(* The patch validator.  A value of a path or from field is                *)
(* [t |-> "string" or "number", s |-> the string, n |-> the number]; an    *)
(* operation is [isObject |-> FALSE] for null, else its fields in f.       *)
(* An error is [operation |-> index, error |-> [text, arg]]: the fixed     *)
(* text of the message and the string spliced into it.                     *)
(***************************************************************************)
Str(s) == [t |-> "string", s |-> s, n |-> 0]

Num(n) == [t |-> "number", s |-> <<>>, n |-> n]

\* !operation.field
Falsy(operation, field) ==
    \/ ~Has(operation.f, field)
    \/ operation.f[field].t = "string" /\ operation.f[field].s = <<>>
    \/ operation.f[field].t = "number" /\ operation.f[field].n = 0

IsString(operation, field) == operation.f[field].t = "string"

Error(index, text, arg) == [operation |-> index, error |-> [text |-> text, arg |-> arg]]

\* { valid, error } of validateAddPath
PathValid == [valid |-> TRUE, error |-> [text |-> "", arg |-> <<>>]]

PathInvalid(text, arg) == [valid |-> FALSE, error |-> [text |-> text, arg |-> arg]]

\* !isNaN(index) && target === index.toString()
IsIndexLiteral(target) == ~ParseInt(target).nan /\ target = IntToString(ParseInt(target).v)

validateAddPath(path, root) ==
    LET lastSlash  == LastIndexOf(path, "/")
        parentPath == IF lastSlash = 0 THEN <<"/">> ELSE SliceTo(path, lastSlash)
        target     == Slice(path, lastSlash + 1)
    IN IF IsRoot(path) THEN PathValid
       ELSE IF parentPath = <<"/">> /\ target = <<>> THEN PathValid
       ELSE IF ~validateJSONPointer(parentPath, root)
       THEN PathInvalid("Parent path is not valid according to schema", parentPath)
       ELSE IF target = <<"-">> THEN PathValid
       ELSE IF IsIndexLiteral(target) THEN PathValid
       ELSE IF ~validateJSONPointer(path, root)
       THEN PathInvalid("Path is not valid according to schema", path)
       ELSE PathValid

\* mergeSchemas of the patch validator: no minProperties / maxProperties.
patchMergeSchemas(s1, s2) ==
    MergeType(
        MergeRequired(
            MergePatternProperties(
                MergeProperties(Spread(s1, s2), s1, s2), s1, s2), s1, s2), s1, s2)

RECURSIVE patchResolveSchema(_, _, _)
RECURSIVE PatchResolveAndMerge(_, _, _, _)

PatchMergeResolved(r, rest, acc, root) ==
    PatchResolveAndMerge(rest, patchMergeSchemas(acc, r.schema), root, r.visited)

PatchResolveAndMerge(schemas, acc, root, vis) ==
    IF schemas = <<>> THEN Ret(acc, vis)
    ELSE PatchMergeResolved(patchResolveSchema(Head(schemas), root, vis), Tail(schemas), acc, root)

\* The $ref branch of the patch validator's resolveSchema, target being what
\* the "#/..." walk finds.
PatchResolveTarget(ref, root, vis, target) ==
    IF ref \in vis THEN Ret(EmptySchema, vis)
    ELSE IF StartsWith(ref, <<"#", "/">>) /\ target.kind = "schema"
    THEN patchResolveSchema(target.v, root, vis \cup {ref})
    ELSE IF StartsWith(ref, <<"#", "/">>) /\ target.kind # "primitive"
    THEN Ret(EmptySchema, vis \cup {ref})
    ELSE Ret(EmptySchema, vis)

\* resolveSchema of the patch validator (context.root = root, context.visited = vis).
patchResolveSchema(s, root, vis) ==
    IF TruthyStr(s, "$ref")
    THEN PatchResolveTarget(s["$ref"], root, vis,
                            WalkRef(JSSchema(root), Split(Slice(s["$ref"], 2), "/")))
    ELSE IF Has(s, "allOf")
    THEN SpreadMerged(s, PatchResolveAndMerge(s["allOf"], EmptySchema, root, vis), {"allOf"})
    ELSE IF Has(s, "anyOf") /\ Len(s["anyOf"]) > 0 THEN patchResolveSchema(s["anyOf"][1], root, vis)
    ELSE IF Has(s, "oneOf") /\ Len(s["oneOf"]) > 0 THEN patchResolveSchema(s["oneOf"][1], root, vis)
    ELSE Ret(s, vis)

\* The object branch of getNextSchemaForToken.
NextForProperty(token, s) ==
    IF Has(s, "properties") /\ OMHas(s["properties"], token)
    THEN Ret(OMGet(s["properties"], token), {})
    ELSE IF Has(s, "properties") /\ token \in ProtoKeys THEN Ret(EmptySchema, {})
    ELSE IF Has(s, "patternProperties") /\ FirstPatternMatch(s["patternProperties"], token) # 0
    THEN Ret(s["patternProperties"][FirstPatternMatch(s["patternProperties"], token)].v, {})
    ELSE IF Has(s, "additionalProperties") /\ Has(s["additionalProperties"], "b")
            /\ ~s["additionalProperties"].b
    THEN RetNull({})
    ELSE IF Has(s, "additionalProperties") /\ Has(s["additionalProperties"], "s")
    THEN Ret(s["additionalProperties"].s, {})
    ELSE Ret(EmptySchema, {})

\* The array branch of getNextSchemaForToken: tryArrayTraversal without the
\* maxItems check.
NextForIndex(token, s) == tryArrayTraversal(token, Drop(s, {"maxItems"}), {})

getNextSchemaForToken(token, s) ==
    IF SeqIncludes(SchemaTypes(s), "object") \/ Has(s, "properties") \/ ~Has(s, "type")
    THEN NextForProperty(token, s)
    ELSE IF ArrayDispatch(s) THEN NextForIndex(token, s)
    ELSE RetNull({})

RECURSIVE SchemaAtTokens(_, _, _)

\* The loop of getSchemaAtPath after one iteration gave n: null, or the
\* schema the loop ends with.
SchemaAtRest(n, toks, root) ==
    IF n.null THEN n ELSE SchemaAtTokens(toks, n.schema, root)

\* The loop of getSchemaAtPath: every iteration resolves under a new context.
SchemaAtTokens(toks, s, root) ==
    IF toks = <<>> THEN Ret(s, {})
    ELSE SchemaAtRest(getNextSchemaForToken(Head(toks), patchResolveSchema(s, root, {}).schema),
                      Tail(toks), root)

getSchemaAtPath(path, root) ==
    IF IsRoot(path) THEN Ret(root, {}) ELSE SchemaAtTokens(ParseTokens(path), root, root)

\* checkRequiredProperty once the parent schema is known (null: not found).
RequiredError(parentSchema, propertyName) ==
    IF parentSchema.null THEN <<>>
    ELSE IF Has(parentSchema.schema, "required")
            /\ SeqIncludes(parentSchema.schema["required"], propertyName)
    THEN <<[text |-> "Cannot remove required property", arg |-> propertyName]>>
    ELSE <<>>

\* The position from which checkRequiredProperty looks at the parent:
\* lastSlash <= 0 returns null.
HasParent(lastSlash) == lastSlash > 0

\* checkRequiredProperty: <<>> for null, else the one message.
checkRequiredProperty(path, root) ==
    LET lastSlash == LastIndexOf(path, "/")
    IN IF ~HasParent(lastSlash) THEN <<>>
       ELSE RequiredError(
                getSchemaAtPath(IF lastSlash = 0 THEN <<"/">> ELSE SliceTo(path, lastSlash), root),
                Slice(path, lastSlash + 1))

\* errors.push({operation: index, error}) for every message of msgs.
Errors(index, msgs) == [i \in 1..Len(msgs) |-> [operation |-> index, error |-> msgs[i]]]

Msg(text, arg) == [text |-> text, arg |-> arg]

If(cond, msgs) == IF cond THEN msgs ELSE <<>>

\* The error of validateAddPath, when it has one.
AddPathErrors(path, root) ==
    If(~validateAddPath(path, root).valid, <<validateAddPath(path, root).error>>)

PathErrors(path, root) ==
    If(~validateJSONPointer(path, root), <<Msg("Path is not valid according to schema", path)>>)

FromErrors(from, root) ==
    If(~validateJSONPointer(from, root),
       <<Msg("From path is not valid according to schema", from)>>)

validateAdd(operation, root, index) ==
    Errors(index,
        IF Falsy(operation, "path") THEN <<Msg("Add operation must have a path property", <<>>)>>
        ELSE IF ~Has(operation.f, "value")
        THEN <<Msg("Add operation must have a value property", <<>>)>>
        ELSE IF ~IsString(operation, "path") THEN <<Msg("Path must be a string", <<>>)>>
        ELSE AddPathErrors(operation.f["path"].s, root))

validateRemove(operation, root, index) ==
    Errors(index,
        IF Falsy(operation, "path")
        THEN <<Msg("Remove operation must have a path property", <<>>)>>
        ELSE IF ~IsString(operation, "path") THEN <<Msg("Path must be a string", <<>>)>>
        ELSE PathErrors(operation.f["path"].s, root)
             \o checkRequiredProperty(operation.f["path"].s, root))

validateReplace(operation, root, index) ==
    Errors(index,
        IF Falsy(operation, "path")
        THEN <<Msg("Replace operation must have a path property", <<>>)>>
        ELSE IF ~Has(operation.f, "value")
        THEN <<Msg("Replace operation must have a value property", <<>>)>>
        ELSE IF ~IsString(operation, "path") THEN <<Msg("Path must be a string", <<>>)>>
        ELSE PathErrors(operation.f["path"].s, root))

\* The check of validateMove that the move would create a cycle.
MovesIntoChild(from, path) == StartsWith(from, path \o <<"/">>)

validateMove(operation, root, index) ==
    Errors(index,
        IF Falsy(operation, "from") \/ Falsy(operation, "path")
        THEN If(Falsy(operation, "from"), <<Msg("Move operation must have a from property", <<>>)>>)
             \o If(Falsy(operation, "path"),
                   <<Msg("Move operation must have a path property", <<>>)>>)
        ELSE IF ~IsString(operation, "from") \/ ~IsString(operation, "path")
        THEN If(~IsString(operation, "from"), <<Msg("From must be a string", <<>>)>>)
             \o If(~IsString(operation, "path"), <<Msg("Path must be a string", <<>>)>>)
        ELSE FromErrors(operation.f["from"].s, root)
             \o AddPathErrors(operation.f["path"].s, root)
             \o If(MovesIntoChild(operation.f["from"].s, operation.f["path"].s),
                   <<Msg("Cannot move to a location that is a child of the source", <<>>)>>)
             \o checkRequiredProperty(operation.f["from"].s, root))

validateCopy(operation, root, index) ==
    Errors(index,
        IF Falsy(operation, "from") \/ Falsy(operation, "path")
        THEN If(Falsy(operation, "from"), <<Msg("Copy operation must have a from property", <<>>)>>)
             \o If(Falsy(operation, "path"),
                   <<Msg("Copy operation must have a path property", <<>>)>>)
        ELSE IF ~IsString(operation, "from") \/ ~IsString(operation, "path")
        THEN If(~IsString(operation, "from"), <<Msg("From must be a string", <<>>)>>)
             \o If(~IsString(operation, "path"), <<Msg("Path must be a string", <<>>)>>)
        ELSE FromErrors(operation.f["from"].s, root)
             \o AddPathErrors(operation.f["path"].s, root))

validateTest(operation, root, index) ==
    Errors(index,
        IF Falsy(operation, "path") THEN <<Msg("Test operation must have a path property", <<>>)>>
        ELSE IF ~Has(operation.f, "value")
        THEN <<Msg("Test operation must have a value property", <<>>)>>
        ELSE IF ~IsString(operation, "path") THEN <<Msg("Path must be a string", <<>>)>>
        ELSE PathErrors(operation.f["path"].s, root))

validOps == <<"add", "remove", "replace", "move", "copy", "test">>

\* A loop that tags every error with the index of the first operation.
FirstIndex(i) == 0

\* The index validateOperation tags the errors of operation number i with.
ErrorIndex(i) == i

validateOperation(operation, root, index) ==
    IF ~operation.isObject THEN Errors(index, <<Msg("Operation must be an object", <<>>)>>)
    ELSE IF ~Has(operation.f, "op") \/ operation.f["op"] = ""
    THEN Errors(index, <<Msg("Operation must have an op property", <<>>)>>)
    ELSE IF ~SeqIncludes(validOps, operation.f["op"])
    THEN Errors(index, <<Msg("Invalid operation", <<operation.f["op"]>>)>>)
    ELSE CASE operation.f["op"] = "add" -> validateAdd(operation, root, index)
           [] operation.f["op"] = "remove" -> validateRemove(operation, root, index)
           [] operation.f["op"] = "replace" -> validateReplace(operation, root, index)
           [] operation.f["op"] = "move" -> validateMove(operation, root, index)
           [] operation.f["op"] = "copy" -> validateCopy(operation, root, index)
           [] operation.f["op"] = "test" -> validateTest(operation, root, index)

RECURSIVE ValidateFrom(_, _, _)

\* The loop of validateJSONPatch from i (0-based) on: the errors it pushes.
ValidateFrom(ops, root, i) ==
    IF i >= Len(ops) THEN <<>>
    ELSE validateOperation(ops[i + 1], root, ErrorIndex(i)) \o ValidateFrom(ops, root, i + 1)

\* validateJSONPatch as one step: { valid, errors }.
validateJSONPatch(p, root) ==
    IF ~p.isArray
    THEN [valid |-> FALSE, errors |-> <<Error(-1, "Patch must be an array", <<>>)>>]
    ELSE [valid |-> ValidateFrom(p.ops, root, 0) = <<>>, errors |-> ValidateFrom(p.ops, root, 0)]

(***************************************************************************)
(* The assignments of the patch validator to schema objects: those of its  *)
(* own mergeSchemas, and those of the validateJSONPointer calls it makes.  *)
(***************************************************************************)
\* The object the assignments of the patch validator's mergeSchemas go to.
PatchMergeTarget(s1, s2) == "new"

PatchMergeAssigns(s1, s2) ==
    MergeAssigns(s1, s2) \ {"minProperties", "maxProperties"}

PatchMergeWrites(s1, s2, s2IsInput) ==
    {Write(PatchMergeTarget(s1, s2) = "s2" /\ s2IsInput,
           IF PatchMergeTarget(s1, s2) = "s2" /\ s2IsInput THEN s2 ELSE EmptySchema, k) :
        k \in PatchMergeAssigns(s1, s2)}

RECURSIVE PatchResolvedIsInput(_, _, _)

PatchTargetIsInput(ref, root, vis, target) ==
    IF ref \in vis THEN FALSE
    ELSE IF StartsWith(ref, <<"#", "/">>) /\ target.kind = "schema"
    THEN PatchResolvedIsInput(target.v, root, vis \cup {ref})
    ELSE StartsWith(ref, <<"#", "/">>) /\ target.kind # "primitive"

\* Whether the patch validator's resolveSchema returns a node of the input.
PatchResolvedIsInput(s, root, vis) ==
    IF TruthyStr(s, "$ref")
    THEN PatchTargetIsInput(s["$ref"], root, vis,
                            WalkRef(JSSchema(root), Split(Slice(s["$ref"], 2), "/")))
    ELSE IF Has(s, "allOf") THEN FALSE
    ELSE IF Has(s, "anyOf") /\ Len(s["anyOf"]) > 0
    THEN PatchResolvedIsInput(s["anyOf"][1], root, vis)
    ELSE IF Has(s, "oneOf") /\ Len(s["oneOf"]) > 0
    THEN PatchResolvedIsInput(s["oneOf"][1], root, vis)
    ELSE TRUE

RECURSIVE PatchResolveWrites(_, _, _)
RECURSIVE PatchReduceWrites(_, _, _, _)

PatchCallbackWrites(r, branch, rest, acc, root, vis) ==
    PatchMergeWrites(acc, r.schema, PatchResolvedIsInput(branch, root, vis))
    \cup PatchReduceWrites(rest, patchMergeSchemas(acc, r.schema), root, r.visited)

PatchReduceWrites(schemas, acc, root, vis) ==
    IF schemas = <<>> THEN {}
    ELSE PatchResolveWrites(Head(schemas), root, vis)
         \cup PatchCallbackWrites(patchResolveSchema(Head(schemas), root, vis),
                                  Head(schemas), Tail(schemas), acc, root, vis)

PatchTargetWrites(ref, root, vis, target) ==
    IF ref \notin vis /\ StartsWith(ref, <<"#", "/">>) /\ target.kind = "schema"
    THEN PatchResolveWrites(target.v, root, vis \cup {ref})
    ELSE {}

\* The writes of the patch validator's resolveSchema.
PatchResolveWrites(s, root, vis) ==
    IF TruthyStr(s, "$ref")
    THEN PatchTargetWrites(s["$ref"], root, vis,
                           WalkRef(JSSchema(root), Split(Slice(s["$ref"], 2), "/")))
    ELSE IF Has(s, "allOf") THEN PatchReduceWrites(s["allOf"], EmptySchema, root, vis)
    ELSE IF Has(s, "anyOf") /\ Len(s["anyOf"]) > 0 THEN PatchResolveWrites(s["anyOf"][1], root, vis)
    ELSE IF Has(s, "oneOf") /\ Len(s["oneOf"]) > 0 THEN PatchResolveWrites(s["oneOf"][1], root, vis)
    ELSE {}

RECURSIVE SchemaAtTokensWrites(_, _, _)

SchemaAtRestWrites(n, toks, root) ==
    IF n.null THEN {} ELSE SchemaAtTokensWrites(toks, n.schema, root)

SchemaAtTokensWrites(toks, s, root) ==
    IF toks = <<>> THEN {}
    ELSE PatchResolveWrites(s, root, {})
         \cup SchemaAtRestWrites(
                  getNextSchemaForToken(Head(toks), patchResolveSchema(s, root, {}).schema),
                  Tail(toks), root)

\* The writes of getSchemaAtPath.
SchemaAtPathWrites(path, root) ==
    IF IsRoot(path) THEN {} ELSE SchemaAtTokensWrites(ParseTokens(path), root, root)

\* The writes of checkRequiredProperty.
RequiredWrites(path, root) ==
    IF ~HasParent(LastIndexOf(path, "/")) THEN {}
    ELSE SchemaAtPathWrites(SliceTo(path, LastIndexOf(path, "/")), root)

\* The writes of validateAddPath.
AddPathWrites(path, root) ==
    LET lastSlash  == LastIndexOf(path, "/")
        parentPath == IF lastSlash = 0 THEN <<"/">> ELSE SliceTo(path, lastSlash)
        target     == Slice(path, lastSlash + 1)
    IN IF IsRoot(path) \/ (parentPath = <<"/">> /\ target = <<>>) THEN {}
       ELSE IF ~validateJSONPointer(parentPath, root) \/ target = <<"-">>
               \/ IsIndexLiteral(target)
       THEN PointerWrites(parentPath, root)
       ELSE PointerWrites(parentPath, root) \cup PointerWrites(path, root)

\* The operation passes the checks of its fields, so that its validator gets
\* to look at the schema.
FieldsPass(operation, fields, needsValue) ==
    /\ \A field \in fields : ~Falsy(operation, field) /\ IsString(operation, field)
    /\ needsValue => Has(operation.f, "value")

\* The writes of validateOperation.
OperationWrites(operation, root) ==
    IF ~operation.isObject \/ ~Has(operation.f, "op") THEN {}
    ELSE IF operation.f["op"] \in {"add"} /\ FieldsPass(operation, {"path"}, TRUE)
    THEN AddPathWrites(operation.f["path"].s, root)
    ELSE IF operation.f["op"] = "remove" /\ FieldsPass(operation, {"path"}, FALSE)
    THEN PointerWrites(operation.f["path"].s, root)
         \cup RequiredWrites(operation.f["path"].s, root)
    ELSE IF operation.f["op"] \in {"replace", "test"} /\ FieldsPass(operation, {"path"}, TRUE)
    THEN PointerWrites(operation.f["path"].s, root)
    ELSE IF operation.f["op"] = "move" /\ FieldsPass(operation, {"from", "path"}, FALSE)
    THEN PointerWrites(operation.f["from"].s, root)
         \cup AddPathWrites(operation.f["path"].s, root)
         \cup RequiredWrites(operation.f["from"].s, root)
    ELSE IF operation.f["op"] = "copy" /\ FieldsPass(operation, {"from", "path"}, FALSE)
    THEN PointerWrites(operation.f["from"].s, root)
         \cup AddPathWrites(operation.f["path"].s, root)
    ELSE {}

(***************************************************************************)
(* The inputs of the model: schemas and pointers of the shapes the         *)
(* JSONSchema type admits.                                                 *)
(***************************************************************************)
Entry(key, s) == [k |-> key, v |-> s]

StringSchema == [type |-> TypeOf("string")]

\* Closed object with the single property a.
ClosedA ==
    [type |-> TypeOf("object"), properties |-> <<Entry(<<"a">>, EmptySchema)>>,
     additionalProperties |-> [b |-> FALSE]]

Ref(target) == "$ref" :> target

RefA == <<"#", "/", "$defs", "/", "A">>

RefB == <<"#", "/", "$defs", "/", "B">>

RefN == <<"#", "/", "$defs", "/", "N">>

TypeFragments ==
    {EmptySchema, [type |-> TypeOf("object")], [type |-> TypeOf("array")],
     [type |-> TypeOf("string")], [type |-> TypeArray(<<"string", "object">>)],
     [type |-> TypeArray(<<"string", "array">>)]}

PropertiesFragments ==
    {EmptySchema,
     [properties |-> <<Entry(<<"a">>, EmptySchema)>>],
     [properties |-> <<Entry(<<"a">>, StringSchema), Entry(<<"name">>, EmptySchema)>>],
     [properties |-> <<Entry(<<"b">>, EmptySchema)>>]}

AdditionalFragments ==
    {EmptySchema, [additionalProperties |-> [b |-> FALSE]],
     [additionalProperties |-> [s |-> StringSchema]]}

ObjectExtraFragments ==
    {EmptySchema,
     [const |-> <<"a">>],
     [enum |-> <<<<"a">>, <<"b">>>>],
     [propertyNames |-> [const |-> <<"a">>]],
     [propertyNames |-> [enum |-> <<<<"b">>>>]],
     [propertyNames |-> [maxLength |-> 1]],
     [propertyNames |-> [minLength |-> 2]],
     [propertyNames |-> [pattern |-> <<"^", "a">>]],
     [propertyNames |-> [pattern |-> <<"(">>]],
     [patternProperties |-> <<Entry(<<"^", "b">>, EmptySchema)>>],
     [patternProperties |-> <<Entry(<<"(">>, EmptySchema), Entry(<<"e", "$">>, StringSchema)>>],
     [dependentSchemas |-> <<Entry(<<"b">>, ClosedA)>>],
     [required |-> <<<<"name">>>>]}

\* Schemas with object keywords, and the same behind a reference, a
\* combinator or a conditional.
ObjectSchemas ==
    {Spread(Spread(t, p), Spread(ap, x)) :
        t \in TypeFragments, p \in PropertiesFragments,
        ap \in AdditionalFragments, x \in ObjectExtraFragments}

PrefixFragments ==
    {EmptySchema, [prefixItems |-> <<ClosedA>>], [prefixItems |-> <<EmptySchema, ClosedA>>]}

ItemsFragments ==
    {EmptySchema, [items |-> [b |-> FALSE]], [items |-> [b |-> TRUE]],
     [items |-> [s |-> ClosedA]], [items |-> [a |-> <<ClosedA>>]]}

ArrayExtraFragments ==
    {EmptySchema, [maxItems |-> 1], [additionalItems |-> [b |-> FALSE]],
     [additionalItems |-> [s |-> ClosedA]],
     [properties |-> <<Entry(<<"a">>, EmptySchema)>>],
     [additionalProperties |-> [b |-> FALSE]],
     [const |-> <<"a">>]}

ArraySchemas ==
    {Spread(Spread(t, p), Spread(i, x)) :
        t \in {EmptySchema, [type |-> TypeOf("array")], [type |-> TypeOf("object")],
               [type |-> TypeArray(<<"object", "array">>)],
               [type |-> TypeArray(<<"string", "array">>)]},
        p \in PrefixFragments, i \in ItemsFragments, x \in ArrayExtraFragments}

\* A node that refers to itself: a list whose rest is again the list.
NodeN ==
    [type |-> TypeOf("object"),
     properties |-> <<Entry(<<"child">>, Ref(RefN)), Entry(<<"a">>, StringSchema)>>,
     additionalProperties |-> [b |-> FALSE]]

Defs(m) == "$defs" :> m

ReferenceSchemas ==
    { \* $defs/A refers to itself
      Defs(<<Entry(<<"A">>, Ref(RefA))>>) @@ [properties |-> <<Entry(<<"a">>, Ref(RefA))>>],
      Defs(<<Entry(<<"A">>, Ref(RefA))>>) @@ Ref(RefA),
      \* A and B refer to each other
      Defs(<<Entry(<<"A">>, Ref(RefB)), Entry(<<"B">>, Ref(RefA))>>)
          @@ [properties |-> <<Entry(<<"a">>, Ref(RefA))>>],
      \* A refers to itself inside allOf, anyOf and a conditional
      Defs(<<Entry(<<"A">>, [allOf |-> <<ClosedA, Ref(RefA)>>])>>) @@ Ref(RefA),
      Defs(<<Entry(<<"A">>, [anyOf |-> <<Ref(RefA), ClosedA>>])>>)
          @@ [properties |-> <<Entry(<<"a">>, Ref(RefA))>>],
      Defs(<<Entry(<<"A">>, [if |-> EmptySchema, then |-> Ref(RefA), else |-> ClosedA])>>)
          @@ Ref(RefA),
      \* a recursive node, entered from the root and from a property
      Defs(<<Entry(<<"N">>, NodeN)>>) @@ Ref(RefN),
      Defs(<<Entry(<<"N">>, NodeN)>>)
          @@ [type |-> TypeOf("object"), properties |-> <<Entry(<<"child">>, Ref(RefN))>>,
              additionalProperties |-> [b |-> FALSE]],
      \* the same reference in two branches of allOf
      Defs(<<Entry(<<"A">>, ClosedA)>>) @@ [allOf |-> <<Ref(RefA), Ref(RefA)>>],
      \* a target below definitions, an escaped segment, a target that is no schema
      [definitions |-> <<Entry(<<"a", "/", "b">>, ClosedA)>>]
          @@ Ref(<<"#", "/", "definitions", "/", "a", "~", "1", "b">>),
      [properties |-> <<Entry(<<"a">>, ClosedA), Entry(<<"child">>, Ref(<<"#", "/", "properties">>))>>],
      [allOf |-> <<ClosedA>>, properties |-> <<Entry(<<"child">>, Ref(<<"#", "/", "allOf", "/", "0">>))>>],
      \* targets that do not exist, unsupported forms
      Ref(<<"#", "/", "$defs", "/", "A">>),
      Ref(<<"#">>),
      Ref(<<"other">>) @@ ClosedA,
      Ref(<<"http", ":", "/", "/", "x">>) @@ ClosedA,
      [properties |-> <<Entry(<<"a">>, Ref(<<"other">>)), Entry(<<"child">>, Ref(<<"other">>))>>,
       additionalProperties |-> [b |-> FALSE]],
      \* anchors
      Defs(<<Entry(<<"A">>, ("$anchor" :> <<"x">>) @@ ClosedA)>>) @@ Ref(<<"#", "x">>),
      Defs(<<Entry(<<"A">>, ("$dynamicAnchor" :> <<"x">>) @@ ClosedA)>>)
          @@ ("$dynamicRef" :> <<"#", "x">>),
      ("$anchor" :> <<"x">>) @@ [properties |-> <<Entry(<<"child">>, Ref(<<"#", "x">>))>>,
                                 additionalProperties |-> [b |-> FALSE]],
      \* combinators and conditionals without references
      [allOf |-> <<ClosedA, [properties |-> <<Entry(<<"b">>, EmptySchema)>>]>>],
      [properties |-> <<Entry(<<"a">>, EmptySchema)>>, additionalProperties |-> [b |-> FALSE],
       allOf |-> <<[properties |-> <<Entry(<<"b">>, EmptySchema)>>]>>],
      [allOf |-> <<>>, type |-> TypeOf("string")],
      \* branches whose types have nothing, and something, in common
      [allOf |-> <<StringSchema, ClosedA>>],
      [allOf |-> <<[type |-> TypeArray(<<"string", "object">>)], ClosedA>>],
      [anyOf |-> <<ClosedA, EmptySchema>>],
      [anyOf |-> <<>>, oneOf |-> <<EmptySchema, ClosedA>>, additionalProperties |-> [b |-> FALSE]],
      [not |-> ClosedA, additionalProperties |-> [b |-> FALSE]],
      \* not next to a conditional, and next to allOf
      [not |-> StringSchema, if |-> EmptySchema, then |-> ClosedA],
      [not |-> StringSchema, allOf |-> <<ClosedA>>],
      [if |-> EmptySchema, then |-> ClosedA],
      [if |-> EmptySchema, then |-> ClosedA,
       else |-> [properties |-> <<Entry(<<"b">>, EmptySchema)>>]],
      [if |-> EmptySchema, additionalProperties |-> [b |-> FALSE]],
      [propertyNames |-> Ref(RefA), properties |-> <<Entry(<<"child">>, Ref(RefA))>>]
          @@ Defs(<<Entry(<<"A">>, [const |-> <<"child">>])>>)
    }

\* "/" followed by the tokens joined with "/".
RECURSIVE PointerOf(_)
PointerOf(toks) == IF toks = <<>> THEN <<>> ELSE <<"/">> \o Head(toks) \o PointerOf(Tail(toks))

RECURSIVE SeqsUpTo(_, _)
SeqsUpTo(S, n) ==
    IF n = 0 THEN {<<>>}
    ELSE LET shorter == SeqsUpTo(S, n - 1)
         IN shorter \cup {Append(q, x) : q \in shorter, x \in S}

ObjectPointers ==
    {PointerOf(<<tok>>) : tok \in {<<"a">>, <<"b">>, <<"name">>, <<"constructor">>, <<"e">>}}
    \cup {<<>>, <<"/">>, <<"a">>, <<"/", "a", "/", "a">>}

ArrayPointers ==
    {PointerOf(<<tok>>) : tok \in {<<"0">>, <<"1">>, <<"2">>, <<"0", "1">>, <<"-", "1">>,
                                    <<"-">>, <<"a">>}}
    \cup {<<"/", "0", "/", "b">>, <<"/", "1", "/", "b">>}

ReferencePointers ==
    {PointerOf(toks) : toks \in SeqsUpTo({<<"child">>, <<"a">>, <<"b">>}, MaxTokens)}
    \cup {<<"/", "a", "~", "1", "b">>}

PointerInputs ==
    (ObjectSchemas \X ObjectPointers)
    \cup (ArraySchemas \X ArrayPointers)
    \cup (ReferenceSchemas \X ReferencePointers)

(***************************************************************************)
(* The pointer validator as a state machine: one call of                   *)
(* validateJSONPointer, one step per iteration of the loop of              *)
(* validateTokens.                                                         *)
(***************************************************************************)
NoPatch == [isArray |-> TRUE, ops |-> <<>>]

\* No agent is running.
NoAgent ==
    [output |-> <<>>, rest |-> <<>>, buffer |-> <<>>, lines |-> <<>>, i |-> 0,
     yielded |-> <<>>, status |-> "none"]

Init ==
    /\ \E in \in PointerInputs : schema = in[1] /\ pointer = in[2]
    /\ tokens = <<>>
    /\ pos = 0
    /\ currentSchema = EmptySchema
    /\ visited = {}
    /\ pc = "call"
    /\ result = "pending"
    /\ patch = NoPatch
    /\ opIndex = 0
    /\ errors = <<>>
    /\ written = {}
    /\ agent = NoAgent

\* validateJSONPointer up to its call of validateTokens.
Enter ==
    /\ pc = "call"
    /\ IF IsRoot(pointer)
       THEN /\ pc' = "done" /\ result' = "true"
            /\ UNCHANGED <<tokens, currentSchema>>
       ELSE IF ~StartsWith(pointer, <<"/">>)
       THEN /\ pc' = "done" /\ result' = "false"
            /\ UNCHANGED <<tokens, currentSchema>>
       ELSE /\ pc' = "loop" /\ result' = result
            /\ tokens' = ParseTokens(pointer)
            /\ currentSchema' = schema
    /\ visited' = {}
    /\ UNCHANGED <<schema, pointer, pos, patch, opIndex, errors, written, agent>>

\* The effect of one iteration of the loop that gave r.
Advance(r) ==
    /\ visited' = r.visited
    /\ IF r.threw \/ r.null
       THEN pc' = "done" /\ result' = Outcome(r) /\ UNCHANGED <<pos, currentSchema>>
       ELSE pos' = pos + 1 /\ currentSchema' = r.schema /\ UNCHANGED <<pc, result>>

\* One iteration of the loop of validateTokens.
NextToken ==
    /\ pc = "loop"
    /\ pos < Len(tokens)
    /\ Advance(ValidateToken(tokens[pos + 1], currentSchema, NewContext(schema), visited))
    /\ written' = written
                   \cup TokenWrites(tokens[pos + 1], currentSchema, NewContext(schema), visited)
    /\ UNCHANGED <<schema, pointer, tokens, patch, opIndex, errors, agent>>

\* The loop is over: validateTokens returns true.
Return ==
    /\ pc = "loop"
    /\ pos = Len(tokens)
    /\ pc' = "done"
    /\ result' = "true"
    /\ UNCHANGED <<schema, pointer, tokens, pos, currentSchema, visited, patch, opIndex, errors,
                   written, agent>>

Next == Enter \/ NextToken \/ Return

Spec == Init /\ [][Next]_vars

(***************************************************************************)
(* The inputs of the patch validator.                                      *)
(***************************************************************************)
Op(fields) == [isObject |-> TRUE, f |-> fields]

NullOp == [isObject |-> FALSE, f |-> <<>>]

Value == Str(<<"v">>)

\* Object with a required property name below the property a.
NestedA ==
    [type |-> TypeOf("object"),
     properties |-> <<Entry(<<"b">>, EmptySchema), Entry(<<"name">>, StringSchema)>>,
     required |-> <<<<"name">>>>]

PatchPropertiesFragments ==
    {EmptySchema,
     [properties |-> <<Entry(<<"a">>, EmptySchema), Entry(<<"name">>, StringSchema)>>],
     [properties |-> <<Entry(<<"a">>, NestedA), Entry(<<"name">>, StringSchema)>>],
     [properties |-> <<Entry(<<"a">>, [type |-> TypeOf("array"), items |-> [s |-> NestedA]])>>]}

PatchExtraFragments ==
    {EmptySchema,
     [required |-> <<<<"name">>>>],
     [required |-> <<<<"a">>, <<"name">>>>],
     [enum |-> <<<<"a">>>>],
     [patternProperties |-> <<Entry(<<"^", "name", "$">>, NestedA)>>]}

\* The property a declared through a reference, a combinator, a conditional
\* or an anchor.
PatchCompositionSchemas ==
    {[properties |-> <<Entry(<<"a">>, [allOf |-> <<NestedA>>])>>],
     Defs(<<Entry(<<"A">>, NestedA)>>)
         @@ [properties |-> <<Entry(<<"a">>,
                [allOf |-> <<Ref(RefA), [properties |-> <<Entry(<<"b">>, StringSchema)>>]>>])>>],
     [properties |-> <<Entry(<<"a">>, [anyOf |-> <<NestedA>>])>>],
     [properties |-> <<Entry(<<"a">>, [oneOf |-> <<NestedA, EmptySchema>>])>>],
     [properties |-> <<Entry(<<"a">>, [if |-> EmptySchema, then |-> NestedA])>>],
     [properties |-> <<Entry(<<"a">>, [not |-> EmptySchema] @@ NestedA)>>],
     Defs(<<Entry(<<"A">>, ("$anchor" :> <<"x">>) @@ NestedA)>>)
         @@ [properties |-> <<Entry(<<"a">>, Ref(<<"#", "x">>))>>],
     [allOf |-> <<NestedA, [properties |-> <<Entry(<<"a">>, NestedA)>>]>>]}

PatchSchemas ==
    {Spread(Spread(t, p), Spread(ap, x)) :
        t \in {EmptySchema, [type |-> TypeOf("object")]},
        p \in PatchPropertiesFragments,
        ap \in {EmptySchema, [additionalProperties |-> [b |-> FALSE]]},
        x \in PatchExtraFragments}
    \cup PatchCompositionSchemas
    \cup {Defs(<<Entry(<<"N">>, NodeN)>>) @@ Ref(RefN),
          Defs(<<Entry(<<"A">>, NestedA)>>)
              @@ [properties |-> <<Entry(<<"a">>, Ref(RefA))>>, required |-> <<<<"name">>>>]}

PathStrings ==
    {<<>>, <<"/">>, <<"/", "a">>, <<"/", "b">>, <<"/", "name">>, <<"/", "a", "/", "b">>,
     <<"/", "a", "/", "name">>, <<"/", "a", "/", "-">>, <<"/", "a", "/", "0">>,
     <<"/", "a", "/", "-", "1">>, <<"/", "a", "/", "0", "1">>, <<"/", "a", "/">>}

\* Values of a path or from field that are no usable string.
BadPaths == {Num(0), Num(5)}

ValueOps(kind) ==
    {Op([op |-> kind, path |-> Str(path), value |-> Value]) : path \in PathStrings}
    \cup {Op([op |-> kind, path |-> bad, value |-> Value]) : bad \in BadPaths}
    \cup {Op([op |-> kind, path |-> Str(<<"/", "a">>)]), Op([op |-> kind, value |-> Value])}

RemoveOps ==
    {Op([op |-> "remove", path |-> Str(path)]) : path \in PathStrings}
    \cup {Op([op |-> "remove", path |-> bad]) : bad \in BadPaths}
    \cup {Op([op |-> "remove"])}

FromPathPairs ==
    {<<<<"/", "a">>, <<"/", "a", "/", "b">>>>, <<<<"/", "a", "/", "b">>, <<"/", "a">>>>,
     <<<<>>, <<"/", "a">>>>, <<<<"/">>, <<"/", "a">>>>,
     <<<<"/", "a">>, <<>>>>, <<<<"/", "a">>, <<"/">>>>,
     <<<<"/", "name">>, <<"/", "b">>>>, <<<<"/", "a", "/", "name">>, <<"/", "b">>>>,
     <<<<"/", "a">>, <<"/", "a">>>>, <<<<"/", "a">>, <<"/", "a", "/", "-", "1">>>>,
     <<<<"/", "a">>, <<"/", "b", "/", "-">>>>}

FromOps(kind) ==
    {Op([op |-> kind, from |-> Str(fp[1]), path |-> Str(fp[2])]) : fp \in FromPathPairs}
    \cup {Op([op |-> kind, from |-> bad, path |-> bad]) : bad \in BadPaths}
    \cup {Op([op |-> kind, from |-> Num(5), path |-> Str(<<"/", "a">>)]),
          Op([op |-> kind, from |-> Str(<<"/", "a">>)]),
          Op([op |-> kind, path |-> Str(<<"/", "a">>)]),
          Op([op |-> kind])}

Operations ==
    ValueOps("add") \cup ValueOps("replace") \cup ValueOps("test") \cup RemoveOps
    \cup FromOps("move") \cup FromOps("copy")
    \cup {NullOp, Op(<<>>), Op([op |-> ""]), Op([op |-> "patch", path |-> Str(<<"/", "a">>)])}

\* The operations the longer batches are made of.
BatchOperations ==
    {Op([op |-> "add", path |-> Str(<<"/", "a">>), value |-> Value]),
     Op([op |-> "replace", path |-> Str(<<"/", "b">>), value |-> Value]),
     Op([op |-> "remove", path |-> Str(<<"/", "a", "/", "name">>)]),
     Op([op |-> "move", from |-> Str(<<"/", "b">>), path |-> Str(<<"/", "a", "/", "b">>)]),
     Op([op |-> "move"]),
     Op([op |-> "copy", from |-> Str(<<"/", "a">>), path |-> Str(<<"/", "name">>)])}

BatchSchemas ==
    {EmptySchema,
     [type |-> TypeOf("object"),
      properties |-> <<Entry(<<"a">>, NestedA), Entry(<<"name">>, StringSchema)>>,
      additionalProperties |-> [b |-> FALSE]],
     Defs(<<Entry(<<"N">>, NodeN)>>) @@ Ref(RefN)}

Batch(ops) == [isArray |-> TRUE, ops |-> ops]

NotAnArray == [isArray |-> FALSE, ops |-> <<>>]

PatchInputs ==
    (PatchSchemas \X {Batch(<<o>>) : o \in Operations})
    \cup (BatchSchemas \X ({Batch(ops) : ops \in SeqsUpTo(BatchOperations, MaxBatch)}
                           \cup {NotAnArray}))

(***************************************************************************)
(* The patch validator as a state machine: one call of validateJSONPatch,  *)
(* one step per iteration of its loop.                                     *)
(***************************************************************************)
PatchInit ==
    /\ \E in \in PatchInputs : schema = in[1] /\ patch = in[2]
    /\ pointer = <<>>
    /\ tokens = <<>>
    /\ pos = 0
    /\ currentSchema = EmptySchema
    /\ visited = {}
    /\ pc = "patch"
    /\ result = "pending"
    /\ opIndex = 0
    /\ errors = <<>>
    /\ written = {}
    /\ agent = NoAgent

\* !Array.isArray(patch): the one error, and the call is over.
RejectPatch ==
    /\ pc = "patch"
    /\ ~patch.isArray
    /\ errors' = <<Error(-1, "Patch must be an array", <<>>)>>
    /\ result' = "false"
    /\ pc' = "done"
    /\ UNCHANGED <<schema, pointer, tokens, pos, currentSchema, visited, patch, opIndex, written,
                   agent>>

\* A loop in which the errors of an operation replace those found before.
ValidateNextForgetting ==
    /\ pc = "patch"
    /\ patch.isArray
    /\ opIndex < Len(patch.ops)
    /\ errors' = validateOperation(patch.ops[opIndex + 1], schema, ErrorIndex(opIndex))
    /\ opIndex' = opIndex + 1
    /\ written' = written \cup OperationWrites(patch.ops[opIndex + 1], schema)
    /\ UNCHANGED <<schema, pointer, tokens, pos, currentSchema, visited, pc, result, patch, agent>>

\* One iteration of the loop of validateJSONPatch.
ValidateNext ==
    /\ pc = "patch"
    /\ patch.isArray
    /\ opIndex < Len(patch.ops)
    /\ errors' = errors \o validateOperation(patch.ops[opIndex + 1], schema, ErrorIndex(opIndex))
    /\ opIndex' = opIndex + 1
    /\ written' = written \cup OperationWrites(patch.ops[opIndex + 1], schema)
    /\ UNCHANGED <<schema, pointer, tokens, pos, currentSchema, visited, pc, result, patch, agent>>

\* The loop is over: { valid: errors.length === 0, errors }.
Finish ==
    /\ pc = "patch"
    /\ patch.isArray
    /\ opIndex = Len(patch.ops)
    /\ result' = IF errors = <<>> THEN "true" ELSE "false"
    /\ pc' = "done"
    /\ UNCHANGED <<schema, pointer, tokens, pos, currentSchema, visited, patch, opIndex, errors,
                   written, agent>>

PatchNext == RejectPatch \/ ValidateNext \/ Finish

PatchSpec == PatchInit /\ [][PatchNext]_vars

(***************************************************************************)
(* jsonPatchStreamingAgent.  The text of the model is a sequence of atoms: *)
(* "\n", the blank " ", and the pieces of a JSON text ("{", a body, "}"),  *)
(* so that a part of the text stream can end inside a line.                *)
(***************************************************************************)
\* line.trim()
RECURSIVE trim(_)
trim(line) ==
    IF line = <<>> THEN line
    ELSE IF Head(line) = " " THEN trim(Tail(line))
    ELSE IF line[Len(line)] = " " THEN trim(SubSeq(line, 1, Len(line) - 1))
    ELSE line

\* The operations the bodies of the JSON texts stand for.
Bodies ==
    ("add /a" :> Op([op |-> "add", path |-> Str(<<"/", "a">>), value |-> Value]))
    @@ ("add /b" :> Op([op |-> "add", path |-> Str(<<"/", "b">>), value |-> Value]))
    @@ ("remove /a" :> Op([op |-> "remove", path |-> Str(<<"/", "a">>)]))

\* JSON.parse(line) returns: the text is one JSON value.
Parses(line) ==
    \/ line = <<"5">>
    \/ Len(line) = 3 /\ line[1] = "{" /\ line[3] = "}" /\ line[2] \in DOMAIN Bodies

\* JSON.parse(line), where it returns.
JSONParse(line) == IF line = <<"5">> THEN NullOp ELSE Bodies[line[2]]

\* A loop that yields every line that parses.
AcceptedAlways(validation) == TRUE

\* if (validation.valid)
Accepted(validation) == validation.valid

\* lines.length - 1: the last piece of the split stays in the buffer.
Complete(lines) == Len(lines) - 1

\* The lines the model may emit.
AgentLines ==
    {<<"{", "add /a", "}">>, <<"{", "add /b", "}">>, <<"{", "remove /a", "}">>,
     <<" ", "{", "add /a", "}", " ">>, <<"5">>, <<"oops">>, <<>>}

\* lines.join("\n")
RECURSIVE JoinLines(_)
JoinLines(lines) ==
    IF lines = <<>> THEN <<>>
    ELSE IF Len(lines) = 1 THEN lines[1]
    ELSE lines[1] \o <<"\n">> \o JoinLines(Tail(lines))

\* The texts of the model: up to MaxLines lines, the last one with or
\* without its newline.
AgentOutputs ==
    {JoinLines(lines) \o end :
        lines \in UNION {[1..k -> AgentLines] : k \in 0..MaxLines}, end \in {<<>>, <<"\n">>}}

AgentSchemas == {EmptySchema, ClosedA}

AgentInit ==
    /\ schema \in AgentSchemas
    /\ agent \in {[output |-> out, rest |-> out, buffer |-> <<>>, lines |-> <<>>, i |-> 0,
                   yielded |-> <<>>, status |-> "reading"] : out \in AgentOutputs}
    /\ pointer = <<>>
    /\ tokens = <<>>
    /\ pos = 0
    /\ currentSchema = EmptySchema
    /\ visited = {}
    /\ pc = "agent"
    /\ result = "pending"
    /\ patch = NoPatch
    /\ opIndex = 0
    /\ errors = <<>>
    /\ written = {}

\* for await (const textPart of textStream): the next part, of any length;
\* buffer += textPart, the split, and the new buffer.
ReceivePart ==
    /\ agent.status = "reading"
    /\ agent.rest # <<>>
    /\ \E n \in 1..Len(agent.rest) :
          LET lines == Split(agent.buffer \o SubSeq(agent.rest, 1, n), "\n")
          IN agent' = [agent EXCEPT !.rest = SubSeq(agent.rest, n + 1, Len(agent.rest)),
                                    !.lines = lines,
                                    !.buffer = lines[Len(lines)],
                                    !.i = 0,
                                    !.status = "lines"]
    /\ UNCHANGED <<schema, pointer, tokens, pos, currentSchema, visited, pc, result, patch,
                   opIndex, errors, written>>

\* What one iteration of the inner loop makes of the agent, given the
\* trimmed line.
ProcessedLine(line) ==
    IF ~Parses(line)
    THEN [agent EXCEPT !.status = "threw"]
    ELSE IF Accepted(validateJSONPatch(Batch(<<JSONParse(line)>>), schema))
    THEN [agent EXCEPT !.yielded = Append(@, line), !.i = @ + 1]
    ELSE [agent EXCEPT !.i = @ + 1]

\* One iteration of for (let i = 0; i < lines.length - 1; i++): JSON.parse
\* throws out of the generator, a valid operation is yielded, an invalid
\* one is logged.
ProcessLine ==
    /\ agent.status = "lines"
    /\ agent.i < Complete(agent.lines)
    /\ agent' = ProcessedLine(trim(agent.lines[agent.i + 1]))
    /\ UNCHANGED <<schema, pointer, tokens, pos, currentSchema, visited, pc, result, patch,
                   opIndex, errors, written>>

\* The inner loop is over: the generator awaits the next part.
AwaitPart ==
    /\ agent.status = "lines"
    /\ agent.i >= Complete(agent.lines)
    /\ agent' = [agent EXCEPT !.status = "reading"]
    /\ UNCHANGED <<schema, pointer, tokens, pos, currentSchema, visited, pc, result, patch,
                   opIndex, errors, written>>

\* The text stream is over: the generator returns, whatever the buffer holds.
StreamEnds ==
    /\ agent.status = "reading"
    /\ agent.rest = <<>>
    /\ agent' = [agent EXCEPT !.status = "ended"]
    /\ UNCHANGED <<schema, pointer, tokens, pos, currentSchema, visited, pc, result, patch,
                   opIndex, errors, written>>

AgentNext == ReceivePart \/ ProcessLine \/ AwaitPart \/ StreamEnds

AgentSpec == AgentInit /\ [][AgentNext]_vars

(***************************************************************************)
(* Properties of the pointer validator.                                    *)
(***************************************************************************)
\* What one iteration of the loop makes of the next token with the guard set
\* vis.
StepWith(vis) == ValidateToken(tokens[pos + 1], currentSchema, NewContext(schema), vis)

\* C3: the guard set is empty each time the loop of validateTokens starts on
\* a token, and the token is treated as it is with an empty guard set.
C3_GuardRestored ==
    pc = "loop"
    => /\ visited = {}
       /\ pos < Len(tokens)
          => /\ StepWith(visited).null = StepWith({}).null
             /\ StepWith(visited).schema = StepWith({}).schema

\* $defs/A is a reference to itself.
SelfReferencing(s) ==
    /\ Has(s, "$defs")
    /\ OMHas(s["$defs"], <<"A">>)
    /\ OMGet(s["$defs"], <<"A">>) = Ref(RefA)

\* C4: no call overflows the stack, which is how a recursion without end
\* shows; a call that has not returned is at the head of the call or in the
\* loop with at most the remaining tokens before it, and it returns true or
\* false; a definition $defs/A that refers to itself resolves to {}.
C4_CyclesTerminate ==
    /\ result # "RangeError"
    /\ pc \in {"call", "loop", "done"}
    /\ pos <= Len(tokens)
    /\ pc = "done" => result \in {"true", "false"}
    /\ SelfReferencing(schema)
       => /\ ~resolveSchema(Ref(RefA), NewContext(schema), {}, 1).threw
          /\ resolveSchema(Ref(RefA), NewContext(schema), {}, 1).schema = EmptySchema

\* A traversal went through the reference of $defs/A to itself.
C4_Witness == pc = "done" /\ SelfReferencing(schema) /\ pos >= 2 /\ RefA \in visited

\* The schema the loop of validateTokens looks the first token up in.
Effective(s) == resolveSchema(s, NewContext(s), {}, 1).schema

NoConstNoEnum(s) == ~Has(s, "const") /\ ~Has(s, "enum")

ForbidsAdditional(s) ==
    Has(s, "additionalProperties") /\ s["additionalProperties"] = [b |-> FALSE]

\* additionalProperties: false and properties with the key a but not b.
ClosedWithA(s) ==
    /\ ForbidsAdditional(s)
    /\ Has(s, "properties")
    /\ OMHas(s["properties"], <<"a">>)
    /\ ~OMHas(s["properties"], <<"b">>)

PatternMatches(s, token) ==
    Has(s, "patternProperties") /\ FirstPatternMatch(s["patternProperties"], token) # 0

\* C7 as stated, on the schema as it is declared.
C7_DeclaredClosed ==
    (pc = "done" /\ ClosedWithA(schema))
    => /\ pointer = <<"/", "a">> => result = "true"
       /\ pointer = <<"/", "b">> => result = "false"

\* C7: when the resolved schema has neither const nor enum, forbids
\* additional properties, declares the property a but not b, and no pattern
\* of patternProperties matches b, then /a is valid and /b is not.
C7_ClosedObject ==
    (pc = "done" /\ ClosedWithA(Effective(schema)) /\ NoConstNoEnum(Effective(schema))
        /\ ~PatternMatches(Effective(schema), <<"b">>))
    => /\ pointer = <<"/", "a">> => result = "true"
       /\ pointer = <<"/", "b">> => result = "false"

C7_Witness ==
    /\ pc = "done"
    /\ pointer = <<"/", "b">>
    /\ ~ClosedWithA(schema)
    /\ ClosedWithA(Effective(schema))
    /\ NoConstNoEnum(Effective(schema))
    /\ result = "false"

ObjectTyped(s) == SeqIncludes(SchemaTypes(s), "object")

SingleSegment(ptr) ==
    Len(ptr) >= 2 /\ Head(ptr) = "/" /\ \A i \in 2..Len(ptr) : ptr[i] # "/"

\* Object-typed, additionalProperties unset, no patternProperties.
OpenObject(s) ==
    ObjectTyped(s) /\ ~Has(s, "additionalProperties") /\ ~Has(s, "patternProperties")

\* C8 as stated, on the schema as it is declared.
C8_DeclaredOpen ==
    (pc = "done" /\ OpenObject(schema) /\ SingleSegment(pointer)) => result = "true"

\* C8: when the resolved schema is object-typed, has neither const nor enum,
\* leaves additionalProperties unset, declares no patternProperties, and
\* either declares no propertyNames or declares the token as a property, then
\* the single-segment pointer is valid.
C8_OpenObject ==
    (pc = "done" /\ SingleSegment(pointer) /\ OpenObject(Effective(schema))
        /\ NoConstNoEnum(Effective(schema))
        /\ \/ ~Has(Effective(schema), "propertyNames")
           \/ /\ Has(Effective(schema), "properties")
              /\ OMHas(Effective(schema)["properties"], Unescape(Tail(pointer))))
    => result = "true"

C8_Witness ==
    /\ pc = "done"
    /\ SingleSegment(pointer)
    /\ OpenObject(Effective(schema))
    /\ NoConstNoEnum(Effective(schema))
    /\ ~Has(Effective(schema), "propertyNames")
    /\ ~(Has(schema, "properties") /\ OMHas(schema["properties"], Tail(pointer)))
    /\ result = "true"

\* Array dispatch applies, prefixItems is not empty, maxItems is unset.
PrefixArray(s) ==
    /\ SeqIncludes(SchemaTypes(s), "array") \/ Has(s, "prefixItems")
    /\ Has(s, "prefixItems")
    /\ Len(s["prefixItems"]) >= 1
    /\ ~Has(s, "maxItems")

IndexPointer(n) == <<"/">> \o NatToString(n)

ItemsFalse(s) == Has(s, "items") /\ s["items"] = [b |-> FALSE]

\* C9 as stated, on the schema as it is declared.
C9_DeclaredPrefix ==
    (pc = "done" /\ PrefixArray(schema))
    => /\ pointer = IndexPointer(Len(schema["prefixItems"]) - 1) => result = "true"
       /\ (pointer = IndexPointer(Len(schema["prefixItems"])) /\ ~Has(schema, "items"))
          => result = "true"
       /\ (pointer = IndexPointer(Len(schema["prefixItems"])) /\ ItemsFalse(schema))
          => result = "false"

\* The object traversal is not tried, or it stops at additionalProperties:
\* false for the token.
NoObjectRoute(s, token) ==
    \/ ~(ObjectTyped(s) \/ Has(s, "properties") \/ Has(s, "patternProperties")
         \/ ~Has(s, "type"))
    \/ /\ ForbidsAdditional(s)
       /\ ~(Has(s, "properties") /\ OMHas(s["properties"], token))
       /\ ~PatternMatches(s, token)

\* C9: when the resolved schema S has neither const nor enum, array dispatch
\* applies to it, its prefixItems has N >= 1 elements and maxItems is unset,
\* then index N-1 is valid; index N is valid when items is absent; and index
\* N is invalid when items is false and the object traversal does not accept
\* the token.
C9_PrefixItems ==
    (pc = "done" /\ PrefixArray(Effective(schema)) /\ NoConstNoEnum(Effective(schema)))
    => /\ pointer = IndexPointer(Len(Effective(schema)["prefixItems"]) - 1) => result = "true"
       /\ (pointer = IndexPointer(Len(Effective(schema)["prefixItems"]))
           /\ ~Has(Effective(schema), "items"))
          => result = "true"
       /\ (pointer = IndexPointer(Len(Effective(schema)["prefixItems"]))
           /\ ItemsFalse(Effective(schema))
           /\ NoObjectRoute(Effective(schema),
                            NatToString(Len(Effective(schema)["prefixItems"]))))
          => result = "false"

C9_Witness ==
    /\ pc = "done"
    /\ PrefixArray(schema)
    /\ NoConstNoEnum(schema)
    /\ ItemsFalse(schema)
    /\ Len(schema["prefixItems"]) = 2
    /\ pointer = IndexPointer(2)
    /\ ForbidsAdditional(schema)
    /\ ~Has(schema, "type")
    /\ result = "false"

(***************************************************************************)
(* Properties of the patch validator.                                      *)
(***************************************************************************)
RemoveName == Op([op |-> "remove", path |-> Str(<<"/", "name">>)])

MoveIntoOwnChild ==
    Op([op |-> "move", from |-> Str(<<"/", "a">>), path |-> Str(<<"/", "a", "/", "b">>)])

RootRequiresName(s) == Has(s, "required") /\ SeqIncludes(s["required"], <<"name">>)

\* A call with the one operation o has returned.
Returned(o) == pc = "done" /\ patch = Batch(<<o>>)

\* C1: when the root of the schema requires "name" and /name is reachable,
\* removing /name is rejected with exactly one error, and that error is the
\* one about removing a required property.
C1_RemoveRequiredAtRoot ==
    (Returned(RemoveName) /\ RootRequiresName(schema)
        /\ validateJSONPointer(<<"/", "name">>, schema))
    => /\ result = "false"
       /\ Len(errors) = 1
       /\ errors[1] = Error(0, "Cannot remove required property", <<"name">>)

\* C2: when /a and /a/b are reachable, moving /a to /a/b is rejected with
\* exactly one error, the one saying that the destination is a child of the
\* source.
C2_MoveIntoOwnChild ==
    (Returned(MoveIntoOwnChild) /\ validateJSONPointer(<<"/", "a">>, schema)
        /\ validateJSONPointer(<<"/", "a", "/", "b">>, schema))
    => /\ Len(errors) = 1
       /\ errors[1] = Error(0, "Cannot move to a location that is a child of the source", <<>>)

\* The operation o with "/" where a path or from is "".
SlashForEmpty(o) ==
    [o EXCEPT !.f = [field \in DOMAIN o.f |->
        IF field \in {"path", "from"} /\ o.f[field] = Str(<<>>)
        THEN Str(<<"/">>) ELSE o.f[field]]]

NamesRootAsEmpty(o) ==
    o.isObject /\ \E field \in DOMAIN o.f \cap {"path", "from"} : o.f[field] = Str(<<>>)

\* C10: an operation whose path or from is "" gets the verdict of the same
\* operation with "/" in its place.
C10_EmptyStringIsRoot ==
    (pc = "done" /\ patch.isArray /\ Len(patch.ops) = 1 /\ NamesRootAsEmpty(patch.ops[1]))
    => (result = "true")
        = validateJSONPatch(Batch(<<SlashForEmpty(patch.ops[1])>>), schema).valid

\* The operation o is valid when validated alone.
ValidAlone(o) == validateJSONPatch(Batch(<<o>>), schema).valid

\* A call has returned on three operations of which the first and the third
\* are invalid and the second is valid.
InvalidValidInvalid ==
    /\ pc = "done"
    /\ patch.isArray
    /\ Len(patch.ops) = 3
    /\ ~ValidAlone(patch.ops[1])
    /\ ValidAlone(patch.ops[2])
    /\ ~ValidAlone(patch.ops[3])

\* C5 as stated: such a batch yields exactly two errors, with the indexes 0
\* and 2.
C5_ExactlyTwoErrors ==
    InvalidValidInvalid
    => /\ result = "false"
       /\ Len(errors) = 2
       /\ errors[1].operation = 0
       /\ errors[2].operation = 2

\* C5: a batch of three operations of which the first and the third are
\* invalid and the second is valid is rejected, and its errors are one or
\* more of operation 0 followed by one or more of operation 2.
C5_ErrorsOfFirstAndThird ==
    InvalidValidInvalid
    => /\ result = "false"
       /\ \E k \in 1..(Len(errors) - 1) :
            /\ \A i \in 1..k : errors[i].operation = 0
            /\ \A i \in (k + 1)..Len(errors) : errors[i].operation = 2

C5_Witness == InvalidValidInvalid /\ Len(errors) > 2

\* The errors errs with the index i in place of theirs.
Reindexed(errs, i) == [k \in 1..Len(errs) |-> [errs[k] EXCEPT !.operation = i]]

RECURSIVE AloneUpTo(_, _, _)

\* The errors the first n operations give when each is validated alone, each
\* with its position in the batch.
AloneUpTo(ops, root, n) ==
    IF n = 0 THEN <<>>
    ELSE AloneUpTo(ops, root, n - 1)
         \o Reindexed(validateJSONPatch(Batch(<<ops[n]>>), root).errors, n - 1)

\* C6: at every point of the loop the errors found so far are those the
\* operations seen so far give when validated alone, in the order of the
\* batch, and the verdict is that there are none.
C6_OperationsIndependent ==
    patch.isArray
    => /\ errors = AloneUpTo(patch.ops, schema, opIndex)
       /\ pc = "done" => (result = "true") = (AloneUpTo(patch.ops, schema, Len(patch.ops)) = <<>>)

C6_Witness ==
    /\ pc = "done"
    /\ Len(patch.ops) >= 3
    /\ \E i, j \in 1..Len(errors) : errors[i].operation = 0 /\ errors[j].operation = 2
    /\ ValidAlone(patch.ops[2])
    /\ patch.ops[1] # patch.ops[3]

\* The text after the last "/" of a path, and the text before it ("/" for a
\* path of one segment).
LastSegment(path) == Slice(path, LastIndexOf(path, "/") + 1)

ParentOf(path) ==
    IF LastIndexOf(path, "/") = 0 THEN <<"/">> ELSE SliceTo(path, LastIndexOf(path, "/"))

\* A non-negative integer written as toString writes it.
NonNegativeLiteral(seg) ==
    /\ seg # <<>>
    /\ \A i \in 1..Len(seg) : IsDigit(seg[i])
    /\ Len(seg) > 1 => seg[1] # "0"

\* Parent reachable, and the last segment is "-" or a non-negative integer or
\* the path itself is reachable.
Addable(path, root) ==
    /\ validateJSONPointer(ParentOf(path), root)
    /\ \/ LastSegment(path) = <<"-">>
       \/ NonNegativeLiteral(LastSegment(path))
       \/ validateJSONPointer(path, root)

\* An add, or a copy from a reachable place, to a path below the root.
AddsTo(o) ==
    /\ o.isObject
    /\ Has(o.f, "op") /\ Has(o.f, "path")
    /\ o.f["path"].t = "string"
    /\ StartsWith(o.f["path"].s, <<"/">>)
    /\ ~IsRoot(o.f["path"].s)
    /\ \/ o.f["op"] = "add" /\ Has(o.f, "value")
       \/ /\ o.f["op"] = "copy" /\ Has(o.f, "from")
          /\ o.f["from"].t = "string" /\ o.f["from"].s # <<>>
          /\ validateJSONPointer(o.f["from"].s, schema)

\* C11: a well-formed add (or the destination of a copy) is accepted exactly
\* when its parent is reachable and its last segment is "-" or a non-negative
\* integer, or the path itself is reachable.
C11_AddPathAccepted ==
    (pc = "done" /\ patch.isArray /\ Len(patch.ops) = 1 /\ AddsTo(patch.ops[1]))
    => (result = "true") = Addable(patch.ops[1].f["path"].s, schema)

(***************************************************************************)
(* Any call of the two public functions.                                   *)
(***************************************************************************)
CallInit == Init \/ PatchInit

CallNext == Next \/ PatchNext

CallSpec == CallInit /\ [][CallNext]_vars

CompleteLines(out) == SubSeq(Split(out, "\n"), 1, Len(Split(out, "\n")) - 1)

\* The line, parsed as one operation, passes validateJSONPatch([op], schema).
LinePasses(line) ==
    /\ Parses(trim(line))
    /\ validateJSONPatch(Batch(<<JSONParse(trim(line))>>), schema).valid

\* The lines that pass among the given ones, in their order, trimmed.
RECURSIVE PassingOf(_)
PassingOf(lines) ==
    IF lines = <<>> THEN <<>>
    ELSE (IF LinePasses(Head(lines)) THEN <<trim(Head(lines))>> ELSE <<>>)
         \o PassingOf(Tail(lines))

\* The lines that pass among those before the first line JSON.parse rejects.
RECURSIVE PassingUntilThrow(_)
PassingUntilThrow(lines) ==
    IF lines = <<>> \/ ~Parses(trim(Head(lines))) THEN <<>>
    ELSE (IF LinePasses(Head(lines)) THEN <<trim(Head(lines))>> ELSE <<>>)
         \o PassingUntilThrow(Tail(lines))

IsPrefixOf(s, u) == Len(s) <= Len(u) /\ SubSeq(u, 1, Len(s)) = s

\* C13: the agent yields only lines that, parsed as one operation, passed
\* validateJSONPatch([op], schema); what it has yielded is, in order, a
\* prefix of the passing newline-terminated lines of the output (each as
\* trimmed by the loop), and once the generator is over it is the same for
\* every way of cutting the output into parts.
C13_YieldsValidatedLines ==
    /\ \A k \in 1..Len(agent.yielded) : LinePasses(agent.yielded[k])
    /\ IsPrefixOf(agent.yielded, PassingOf(CompleteLines(agent.output)))
    /\ agent.status \in {"ended", "threw"}
          => agent.yielded = PassingUntilThrow(CompleteLines(agent.output))

\* A line has been yielded, an invalid line before it was not, and the
\* part just received ends inside a line.
C13_Witness ==
    /\ agent.status = "lines"
    /\ agent.buffer # <<>>
    /\ agent.yielded # <<>>
    /\ Len(PassingOf(CompleteLines(agent.output))) < Len(CompleteLines(agent.output))

(***************************************************************************)
(* Properties of resolveSchema and mergeSchemas.                           *)
(***************************************************************************)
\* The resolution of the root returns a schema.
Resolves(s) ==
    /\ ~resolveSchema(s, NewContext(s), {}, 1).threw
    /\ ~resolveSchema(s, NewContext(s), {}, 1).null

\* The pointer has one segment, which names a property declared directly on
\* the node.
NamesOwnProperty(ptr, s) ==
    /\ SingleSegment(ptr)
    /\ Has(s, "properties")
    /\ OMHas(s["properties"], Unescape(Tail(ptr)))

\* C14: after resolving a node with allOf, every property declared directly
\* on the node is among the effective properties, and a pointer that names
\* one is valid.
C14_OwnPropertiesKept ==
    (pc = "done" /\ Has(schema, "allOf") /\ Has(schema, "properties") /\ Resolves(schema))
        => /\ Has(Effective(schema), "properties")
           /\ \A i \in 1..Len(schema["properties"]) :
                 OMHas(Effective(schema)["properties"], schema["properties"][i].k)
           /\ NamesOwnProperty(pointer, schema) => result = "true"

\* Both schemas declare a type and no type is allowed by both.
DisjointTypes(s1, s2) ==
    /\ Has(s1, "type")
    /\ Has(s2, "type")
    /\ \A i \in 1..Len(SchemaTypes(s1)) : ~SeqIncludes(SchemaTypes(s2), SchemaTypes(s1)[i])

\* The node is an allOf of two branches that resolve to themselves.
TwoPlainBranches(s) ==
    /\ Has(s, "allOf")
    /\ Len(s["allOf"]) = 2
    /\ \A i \in 1..2 : resolveSchema(s["allOf"][i], NewContext(s), {}, 1) = Ret(s["allOf"][i], {})

\* C15: when both branches of a merge declare a type and no type is allowed
\* by both, the merged schema has no type keyword.
C15_EmptyIntersectionOmitsType ==
    (pc = "done" /\ TwoPlainBranches(schema)
        /\ DisjointTypes(schema["allOf"][1], schema["allOf"][2]))
        => ~Has(mergeSchemas(schema["allOf"][1], schema["allOf"][2]), "type")

\* Where some type is allowed by both, the merged type is what both allow.
TypeIsIntersection ==
    (pc = "done" /\ TwoPlainBranches(schema)
        /\ Has(schema["allOf"][1], "type") /\ Has(schema["allOf"][2], "type")
        /\ ~DisjointTypes(schema["allOf"][1], schema["allOf"][2]))
        => \A t \in {"string", "object", "array"} :
              SeqIncludes(SchemaTypes(mergeSchemas(schema["allOf"][1], schema["allOf"][2])), t)
                 <=> /\ SeqIncludes(SchemaTypes(schema["allOf"][1]), t)
                     /\ SeqIncludes(SchemaTypes(schema["allOf"][2]), t)

\* The node resolves through its conditional: it has if, then and else and
\* none of the keywords resolveSchema looks at first.
ConditionalNode(s) ==
    /\ Has(s, "if") /\ Has(s, "then") /\ Has(s, "else")
    /\ \A k \in {"$ref", "$dynamicRef", "allOf", "anyOf", "oneOf", "not"} : ~Has(s, k)

\* The node with its conditional replaced by the branch under keyword k.
WithBranch(s, k) == Spread(Drop(s, {"if", "then", "else"}), s[k])

\* C16: a pointer that is valid when the conditional is replaced by its then
\* branch alone, or by its else branch alone, is valid against the node.
C16_EitherBranchAdmits ==
    (pc = "done" /\ ConditionalNode(schema)
        /\ \/ validateJSONPointer(pointer, WithBranch(schema, "then"))
           \/ validateJSONPointer(pointer, WithBranch(schema, "else")))
        => result = "true"

\* C17: for a schema whose root carries not, validateJSONPointer returns
\* what it returns for the schema with not removed.
C17_NotIgnored ==
    (pc = "done" /\ Has(schema, "not"))
        => (result = "true" <=> validateJSONPointer(pointer, Drop(schema, {"not"})))

\* The same, for the nodes on which resolveSchema stops at not only: those
\* without a conditional.
NotIgnoredWithoutConditional ==
    (pc = "done" /\ Has(schema, "not") /\ ~Has(schema, "if"))
        => (result = "true" <=> validateJSONPointer(pointer, Drop(schema, {"not"})))

(***************************************************************************)
(* Required-property protection below the root.                            *)
(***************************************************************************)
\* The operation takes a value away from a path given as a string: a remove,
\* or a move with its from.
Removes(o) ==
    /\ o.isObject
    /\ Has(o.f, "op")
    /\ \/ o.f["op"] = "remove" /\ ~Falsy(o, "path") /\ IsString(o, "path")
       \/ /\ o.f["op"] = "move"
          /\ ~Falsy(o, "from") /\ IsString(o, "from")
          /\ ~Falsy(o, "path") /\ IsString(o, "path")

\* The path the operation takes the value away from.
RemovedPath(o) == IF o.f["op"] = "remove" THEN o.f["path"].s ELSE o.f["from"].s

\* The schema found at the parent of the path.
ParentSchema(path, root) == getSchemaAtPath(SliceTo(path, LastIndexOf(path, "/")), root)

\* The path has at least two segments, and the schema found at its parent
\* lists the last segment in required.
ParentDeclaresRequired(path, root) ==
    /\ LastIndexOf(path, "/") > 0
    /\ ~ParentSchema(path, root).null
    /\ Has(ParentSchema(path, root).schema, "required")
    /\ SeqIncludes(ParentSchema(path, root).schema["required"],
                   Slice(path, LastIndexOf(path, "/") + 1))

\* The same, for the schema at the parent after resolving its $ref / allOf.
ParentRequires(path, root) ==
    /\ LastIndexOf(path, "/") > 0
    /\ ~ParentSchema(path, root).null
    /\ ~patchResolveSchema(ParentSchema(path, root).schema, root, {}).null
    /\ Has(patchResolveSchema(ParentSchema(path, root).schema, root, {}).schema, "required")
    /\ SeqIncludes(patchResolveSchema(ParentSchema(path, root).schema, root, {}).schema["required"],
                   Slice(path, LastIndexOf(path, "/") + 1))

\* The errors hold the one about removing the last segment of the path.
CitesRequired(path) ==
    \E i \in 1..Len(errors) :
        errors[i].error = Msg("Cannot remove required property",
                              Slice(path, LastIndexOf(path, "/") + 1))

\* C18: a remove, or a move from, a path of at least two segments whose
\* parent's resolved schema lists the last segment in required gets the
\* error citing the required property, also when required comes from a $ref
\* target or an allOf branch of the parent.
C18_RequiredAtResolvedParent ==
    (pc = "done" /\ patch.isArray /\ Len(patch.ops) = 1 /\ Removes(patch.ops[1])
        /\ ParentRequires(RemovedPath(patch.ops[1]), schema))
        => CitesRequired(RemovedPath(patch.ops[1]))

\* The same where the parent node lists the property in its own required.
RequiredAtDeclaringParent ==
    (pc = "done" /\ patch.isArray /\ Len(patch.ops) = 1 /\ Removes(patch.ops[1])
        /\ ParentDeclaresRequired(RemovedPath(patch.ops[1]), schema))
        => CitesRequired(RemovedPath(patch.ops[1]))

(***************************************************************************)
(* What the streaming agent has yielded when it is over.                   *)
(***************************************************************************)
\* C19: once the generator is over, every line of the output that passes
\* validateJSONPatch has been yielded: the last line also when no newline
\* follows it, and the lines after a blank or unparseable line.
C19_EveryValidLineYielded ==
    agent.status \in {"ended", "threw"}
        => agent.yielded = PassingOf(Split(agent.output, "\n"))

\* The same for the outputs whose lines all parse and end with a newline.
EveryLineYieldedWhenAllParse ==
    (agent.status \in {"ended", "threw"}
        /\ agent.output # <<>>
        /\ agent.output[Len(agent.output)] = "\n"
        /\ \A k \in 1..Len(CompleteLines(agent.output)) :
              Parses(trim(CompleteLines(agent.output)[k])))
        => /\ agent.status = "ended"
           /\ agent.yielded = PassingOf(Split(agent.output, "\n"))

=============================================================================
